---- MODULE Spec2Model ----
(***************************************************************************)
(* Plan / clarify / execute / aggregate workflow of the Abbott analysis    *)
(* tool (src/src/langgraph_workflow, src/src/agents).                      *)
(*                                                                         *)
(* Text is a sequence of atoms (string literals); concatenation is \o.     *)
(* Python's substring test `kw in text.lower()` is Contains(text, kw),     *)
(* decided by the table Words, which lists for every atom the keywords     *)
(* the code looks for that occur in the atom's lower-cased text.           *)
(***************************************************************************)
EXTENDS Integers, Sequences, FiniteSets, TLC

\* ------------------------------------------------------------------ bounds
MaxSteps == 2

\* the sums and aliases a formula is evaluated over take values 0..MaxValue
MaxValue == 2

\* ------------------------------------------------------------------- text
None == <<"<None>">>
EmptyText == <<>>
EmptyDict == [k \in {} |-> 0]

QSalesDelhi == "What are the sales for Delhi?"
QTargetsLastMonth == "Did Delhi zone achieve its targets last month?"
QShowAll == "Show all data for Zone='DELHI' and Mth='Apr'"

AmbAchievement == "For achievement calculation: Primary or Secondary sales? Value or Units?"
AmbSales == "When you say 'sales': Primary or Secondary? Value or Units?"
AmbTime == "Please specify the exact time period (e.g., 'Mar' for March, 'Q1' for first quarter)"
KeyPrimSec == "Primary or Secondary AND Value or Units?"

KeyFreeForm == "Which metric?"

AnsPrimaryValue == "Primary Value"
AnsValue == "Value"
AnsLastQuarter == "last quarter"

\* questions of workplan steps, and values of their params
FQDelhi == "Filter rows for DELHI"
FQEveryTotal == "Keep the total rows"
FQStatusAll == "Keep rows where Status = 'All' in DELHI"
FQPrimaryApr == "Primary sales value of DELHI zone in Apr"
FQMarch == "Rows of March"
AQBrandSecondary == "Total secondary sales value by brand"
AQDelhiPrimary == "Sum primary value for Delhi"
AQUnits == "Sum secondary units"
AQPlain == "Aggregate everything"
CQAchievement == "Calculate achievement by brand"
CQAchievementSec == "Secondary achievement against target"
CQGrowth == "Growth of secondary sales by zone"
CQGrowthPrim == "Primary growth"
CQGap == "Performance gap"
CQDefault == "Compute the figure"
RQTop5Secondary == "Show me top 5 brands by secondary sales value"
RQQ1Top5 == "For Q1 show the top 5 brands by secondary sales value"
RQTopWorst == "Top 3 worst brands"
RQBottom == "Bottom 10 territories by achievement"
RQLowestGrowth == "Lowest growth first"
RQGap == "Order by gap"
RQPlain == "Order the brands"
PVBrand == "brand"
PVSecondaryAchievement == "secondary achievement"
PVGrowth == "growth"
\* questions put to the static heuristics on their own
HQPrimaryLastMonth == "Primary sales last month"
HQSalesQ1 == "Sales in Q1 compared with last quarter"
HQAchievementThisQuarter == "Achievement this quarter"
HQSecondaryMarch == "Secondary sales in March versus last month"
HQCurrentTarget == "Current target"
HQGrowth == "Brand growth last quarter"
\* the strings the built-in heuristics look for before they append their own
GuardAchievement == "Value Achievement (sales amount) or Unit Achievement (quantity sold)? Achievement to be calculated over Primary or Secondary ?"
\* (the dash of GuardSales is an en dash in the source)
GuardSales == "'sales' - is that Primary or Secondary?  Value or Units?"

Words(atom) ==
    CASE atom = QSalesDelhi -> {"sales"}
      [] atom = QTargetsLastMonth -> {"achieve", "target", "last month"}
      [] atom = QShowAll -> {"apr"}
      [] atom = AmbAchievement ->
             {"achievement", "achieve", "primary", "prim", "mar", "secondary", "sec", "sales"}
      [] atom = AmbSales -> {"sales", "primary", "prim", "mar", "secondary", "sec"}
      [] atom = AmbTime -> {"mar", "q1"}
      [] atom = KeyPrimSec -> {"primary", "prim", "mar", "secondary", "sec"}
      [] atom = AnsPrimaryValue -> {"primary", "prim", "mar"}
      [] atom = AnsLastQuarter -> {"last quarter"}
      [] atom = FQDelhi ->
             {"delhi"}
      [] atom = FQEveryTotal ->
             {"total"}
      [] atom = FQStatusAll ->
             {"'all'", "delhi", "status"}
      [] atom = FQPrimaryApr ->
             {"delhi", "mar", "apr", "zone", "primary", "prim", "value", "sales"}
      [] atom = FQMarch ->
             {"march", "mar"}
      [] atom = AQBrandSecondary ->
             {"total", "by brand", "brand", "secondary", "sec", "value", "sales"}
      [] atom = AQDelhiPrimary ->
             {"delhi", "mar", "primary", "prim", "value"}
      [] atom = AQUnits ->
             {"secondary", "sec", "unit"}
      [] atom = AQPlain ->
             {}
      [] atom = CQAchievement ->
             {"by brand", "brand", "achievement", "achieve"}
      [] atom = CQAchievementSec ->
             {"secondary", "sec", "target", "achievement", "achieve"}
      [] atom = CQGrowth ->
             {"by zone", "zone", "secondary", "sec", "growth", "sales"}
      [] atom = CQGrowthPrim ->
             {"mar", "primary", "prim", "growth"}
      [] atom = CQGap ->
             {"gap"}
      [] atom = CQDefault ->
             {}
      [] atom = RQTop5Secondary ->
             {"brand", "secondary", "sec", "value", "sales", "top", "top 5"}
      [] atom = RQQ1Top5 ->
             {"brand", "secondary", "sec", "value", "sales", "top", "top 5", "q1"}
      [] atom = RQTopWorst ->
             {"brand", "top", "worst"}
      [] atom = RQBottom ->
             {"achievement", "achieve", "bottom"}
      [] atom = RQLowestGrowth ->
             {"growth", "lowest"}
      [] atom = RQGap ->
             {"gap"}
      [] atom = RQPlain ->
             {"brand"}
      [] atom = PVBrand ->
             {"brand"}
      [] atom = PVSecondaryAchievement ->
             {"secondary", "sec", "achievement", "achieve"}
      [] atom = PVGrowth ->
             {"growth"}
      [] atom = HQPrimaryLastMonth ->
             {"mar", "primary", "prim", "sales", "last month"}
      [] atom = HQSalesQ1 ->
             {"sales", "q1", "last quarter"}
      [] atom = HQAchievementThisQuarter ->
             {"achievement", "achieve", "this quarter"}
      [] atom = HQSecondaryMarch ->
             {"march", "mar", "secondary", "sec", "sales", "last month"}
      [] atom = HQCurrentTarget ->
             {"target", "current"}
      [] atom = HQGrowth ->
             {"brand", "growth", "last quarter"}
      [] atom = GuardAchievement ->
             {"mar", "primary", "prim", "secondary", "sec", "value", "unit", "achievement",
              "achieve", "sales"}
      [] atom = GuardSales ->
             {"mar", "primary", "prim", "secondary", "sec", "value", "unit", "sales"}
      [] OTHER -> {}

\* re.findall(r'\d+', atom)
Numbers(atom) ==
    CASE atom = "" -> <<>>
      [] atom = RQTop5Secondary -> <<5>>
      [] atom = RQQ1Top5 -> <<1, 5>>
      [] atom = RQTopWorst -> <<3>>
      [] atom = RQBottom -> <<10>>
      [] OTHER -> <<>>

Contains(text, kw) == \E i \in 1..Len(text) : kw \in Words(text[i])

ContainsAny(text, kws) == \E kw \in kws : Contains(text, kw)

Months == {"jan", "feb", "mar", "apr", "may", "jun", "jul", "aug", "sep", "oct", "nov", "dec"}
Quarters == {"q1", "q2", "q3", "q4"}
RelativeTime == {"this month", "last month", "this quarter", "last quarter", "current"}

\* ---------------------------------------------------------------- planner
StepTypes == {"filter", "aggregate", "calculate", "rank", "compare"}

StepIds == <<"step_1", "step_2", "step_3", "step_4", "step_5">>

\* `text in ambiguities`
In(text, ambiguities) == \E i \in 1..Len(ambiguities) : ambiguities[i] = text

\* SimplePlanner._detect_ambiguities, the built-in heuristics, run on the list
\* `found` the vocabulary terms have left
builtin_heuristics(query, found) ==
    LET a0 == found
        a1 == IF /\ ContainsAny(query, {"achievement", "achieve", "target"})
                 /\ ~ContainsAny(query, {"primary", "secondary"})
                 /\ ~In(<<GuardAchievement>>, a0)
              THEN Append(a0, <<AmbAchievement>>) ELSE a0
        a2 == IF /\ Contains(query, "sales")
                 /\ ~ContainsAny(query, {"primary", "secondary", "prim", "sec"})
                 /\ ~In(<<GuardSales>>, a1)
              THEN Append(a1, <<AmbSales>>) ELSE a1
        a3 == IF /\ ContainsAny(query, RelativeTime)
                 /\ ~ContainsAny(query, Months)
                 /\ ~ContainsAny(query, Quarters)
              THEN Append(a2, <<AmbTime>>) ELSE a2
    IN a3

\* SimplePlanner._detect_ambiguities with the empty vocabulary of a run of
\* the workflow
_detect_ambiguities(query) == builtin_heuristics(query, <<>>)

\* a term of the schema's vocabulary: `options` is the empty list when the
\* entry has none, `clarification_needed` is None when the entry has none;
\* options are written in lower case
Term(term, ambiguous, options, clarification_needed) ==
    [term |-> term, ambiguous |-> ambiguous, options |-> options,
     clarification_needed |-> clarification_needed]

\* info.get("clarification_needed", f"Please clarify '{term}'")
clarification_of(t) ==
    IF t.clarification_needed = None
    THEN <<"Please clarify '", t.term, "'">>
    ELSE t.clarification_needed

\* one of the term's options occurs in the query
term_clarified(query, t) == \E i \in 1..Len(t.options) : Contains(query, t.options[i])

\* the loop over the vocabulary's terms, in order
RECURSIVE vocabulary_ambiguities(_, _)
vocabulary_ambiguities(query, vocab) ==
    IF vocab = <<>> THEN <<>>
    ELSE LET found == vocabulary_ambiguities(query, SubSeq(vocab, 1, Len(vocab) - 1))
             t == vocab[Len(vocab)]
         IN IF /\ t.ambiguous
               /\ Contains(query, t.term)
               /\ ~term_clarified(query, t)
               /\ ~In(clarification_of(t), found)
            THEN Append(found, clarification_of(t))
            ELSE found

\* SimplePlanner._detect_ambiguities for a schema with vocabulary `vocab`
detect_ambiguities(query, vocab) ==
    builtin_heuristics(query, vocabulary_ambiguities(query, vocab))

\* What the structured-output call may return: a workplan of at most MaxSteps
\* steps.  WorkplanStep puts no constraint on type or depends_on beyond their
\* Python types, so the type may be any string ("analyze" is the step the
\* prompt's own example names) and a dependency any id.
LLMStepTypes == {"filter", "compare", "analyze"}

DependsPatterns == {"none", "chain", "dangling", "forward", "repeated"}

\* depends_on of the i-th of n steps: no dependency; the step before; the
\* step before, but for the last step an id no step of the plan has; the
\* step before, but for the first step the id of the last step; no
\* dependency, in a plan whose last step repeats the id of the first.
LLMDependsOn(pattern, i, n) ==
    CASE pattern \in {"none", "repeated"} -> <<>>
      [] pattern = "dangling" /\ i = n -> <<StepIds[n + 1]>>
      [] pattern = "forward" /\ i = 1 -> <<StepIds[n]>>
      [] OTHER -> IF i = 1 THEN <<>> ELSE <<StepIds[i - 1]>>

\* id of the i-th of n steps: WorkplanStep.id is any string, nothing makes
\* the ids of a plan distinct
LLMStepId(pattern, i, n) ==
    IF pattern = "repeated" /\ i = n THEN StepIds[1] ELSE StepIds[i]

LLMWorkplans ==
    UNION { { [i \in 1..n |-> [id |-> LLMStepId(dp, i, n), type |-> ty[i],
                               depends_on |-> LLMDependsOn(dp, i, n)]]
              : ty \in [1..n -> LLMStepTypes], dp \in DependsPatterns }
            : n \in 0..MaxSteps }

LLMAmbiguities == {<<>>, <<<<"Which brands are focus brands?">>>>}

LLMErrors == {"LLM request failed"}

\* SimplePlanner.plan when the structured-output call returns `llm_result`.
plan(query, llm_result) ==
    [workplan |-> llm_result.workplan, ambiguities |-> _detect_ambiguities(query)]

\* What the most recent call of SimplePlanner.plan did: returned a
\* PlannerOutput, or raised `error`.
PlannerReturned(plan_output) ==
    [called |-> TRUE, raised |-> FALSE, workplan |-> plan_output.workplan,
     ambiguities |-> plan_output.ambiguities, error |-> ""]

PlannerRaised(e) ==
    [called |-> TRUE, raised |-> TRUE, workplan |-> <<>>, ambiguities |-> <<>>, error |-> e]

PlannerNotCalled ==
    [called |-> FALSE, raised |-> FALSE, workplan |-> <<>>, ambiguities |-> <<>>, error |-> ""]

\* llm_last: the ambiguities the structured-output call returned, when the
\* node that ran last made such a call and it returned; <<>> otherwise.
LLMReturned(llm_result) == llm_result.ambiguities

\* --------------------------------------------------------------- workflow
VARIABLES state, pc, raised, planner_calls, planner_last, llm_last, executor_calls, agent_calls, views, entered,
          stale,
          compiler, cli, heuristics, clarifier

\* the variables of one run of the workflow; stale holds the views that
\* earlier runs on the same connection have left and this run has not replaced
workflow_vars ==
    <<state, pc, raised, planner_calls, planner_last, llm_last, executor_calls, agent_calls,
      views, entered, stale>>

vars == <<workflow_vars, compiler, cli, heuristics, clarifier>>

\* compiler: a step handed to the StepExecutor's SQL generators on its own;
\* cli: a call of InteractiveWorkflow.run_with_clarifications; heuristics: a
\* call of SimplePlanner._detect_ambiguities on its own; clarifier: a call of
\* QueryClarifier.clarify.  None is in use during a run of the workflow
\* taken alone.
NotInUse == [pc |-> "off"]

Questions == {<<QSalesDelhi>>, <<QTargetsLastMonth>>, <<QShowAll>>}

\* clarification_answers: question text -> answer text, in insertion order
AnswerSets ==
    { <<>>,
      << <<<<KeyPrimSec>>, <<AnsPrimaryValue>>>> >>,
      << <<<<KeyFreeForm>>, <<AnsValue>>>> >>,
      << <<<<KeyFreeForm>>, <<AnsLastQuarter>>>>, <<<<AmbSales>>, <<AnsValue>>>> >> }

\* LangGraph applies a node's return value key by key; past_steps is declared
\* with operator.add and is appended to.
Merge(st, update) ==
    [k \in DOMAIN st |->
        IF k \in DOMAIN update
        THEN IF k = "past_steps" THEN st[k] \o update[k] ELSE update[k]
        ELSE st[k]]

initial_state(question, clarification_answers) ==
    [input |-> question,
     workplan |-> <<>>,
     past_steps |-> <<>>,
     current_step_index |-> 0,
     step_results |-> EmptyDict,
     sql_queries |-> <<>>,
     final_response |-> EmptyText,
     success |-> FALSE,
     sql_query |-> None,
     error |-> None,
     ambiguities |-> <<>>,
     requires_clarification |-> FALSE,
     clarification_answers |-> clarification_answers,
     clarification_needed |-> FALSE]

Init ==
    /\ \E q \in Questions, a \in AnswerSets : state = initial_state(q, a)
    /\ pc = "plan"
    /\ raised = None
    /\ planner_calls = <<>>
    /\ planner_last = PlannerNotCalled
    /\ llm_last = <<>>
    /\ executor_calls = <<>>
    /\ agent_calls = <<>>
    /\ views = {}
    /\ entered = {}
    /\ stale = {}
    /\ compiler = NotInUse
    /\ cli = NotInUse
    /\ heuristics = NotInUse
    /\ clarifier = NotInUse

\* planning_node, try branch
planning_node_ok(st, plan_output) ==
    LET ambiguities_ == plan_output.ambiguities
    IN [workplan |-> plan_output.workplan,
        current_step_index |-> 0,
        step_results |-> EmptyDict,
        sql_queries |-> <<>>,
        success |-> TRUE,
        ambiguities |-> ambiguities_,
        requires_clarification |-> ambiguities_ # <<>>,
        clarification_answers |-> st.clarification_answers,
        clarification_needed |-> ambiguities_ # <<>>]

\* planning_node, except branch
planning_node_except(st, e) ==
    [workplan |-> <<>>,
     success |-> FALSE,
     error |-> <<"Planning failed: ", e>>]

PlanOk ==
    /\ pc = "plan"
    /\ \E wp \in LLMWorkplans, la \in LLMAmbiguities :
          LET llm_result == [workplan |-> wp, ambiguities |-> la]
              plan_output == plan(state.input, llm_result)
          IN /\ state' = Merge(state, planning_node_ok(state, plan_output))
             /\ planner_last' = PlannerReturned(plan_output)
             /\ llm_last' = LLMReturned(llm_result)
    /\ planner_calls' = Append(planner_calls, state.input)
    /\ entered' = entered \cup {"plan"}
    /\ pc' = "clarify"
    /\ UNCHANGED <<compiler, cli, heuristics, clarifier, stale, raised, executor_calls, agent_calls, views>>

PlanRaise ==
    /\ pc = "plan"
    /\ \E e \in LLMErrors :
          /\ state' = Merge(state, planning_node_except(state, e))
          /\ planner_last' = PlannerRaised(e)
          /\ llm_last' = <<>>
    /\ planner_calls' = Append(planner_calls, state.input)
    /\ entered' = entered \cup {"plan"}
    /\ pc' = "clarify"
    /\ UNCHANGED <<compiler, cli, heuristics, clarifier, stale, raised, executor_calls, agent_calls, views>>

\* "\n".join([f"{k}: {v}" for k, v in answers.items()])
RECURSIVE clarification_note(_)
clarification_note(answers) ==
    IF answers = <<>> THEN EmptyText
    ELSE LET line == answers[1][1] \o <<": ">> \o answers[1][2]
         IN IF Len(answers) = 1 THEN line
            ELSE line \o <<"\n">> \o clarification_note(Tail(answers))

\* mutant: the note repeats each answer in place of the question it answers
clarified_query_KeysDropped(st) ==
    st.input \o <<"\n">>
        \o clarification_note([i \in 1..Len(st.clarification_answers) |->
                                  <<st.clarification_answers[i][2], st.clarification_answers[i][2]>>])

\* mutant: only the first answer is appended to the question
clarified_query_FirstAnswerOnly(st) ==
    st.input \o <<"\n">> \o clarification_note(SubSeq(st.clarification_answers, 1, 1))

clarified_query(st) == st.input \o <<"\n">> \o clarification_note(st.clarification_answers)

\* mutant: pausing also throws the plan away
clarification_node_PauseClearsPlan(st) ==
    IF ~st.requires_clarification
    THEN [clarification_needed |-> FALSE]
    ELSE [clarification_needed |-> TRUE, workplan |-> <<>>]

\* mutant: supplied answers are looked at before the requires_clarification flag
clarification_node_AnswersFirst(st) ==
    IF ~st.requires_clarification /\ st.clarification_answers = <<>>
    THEN [clarification_needed |-> FALSE]
    ELSE [clarification_needed |-> TRUE]

\* clarification_node, the two branches that do not call the planner
clarification_node(st) ==
    IF ~st.requires_clarification
    THEN [clarification_needed |-> FALSE]
    ELSE [clarification_needed |-> TRUE]

\* mutant: requires_clarification is not recomputed from the new plan
clarification_node_replan_StaleFlag(st, new_plan) ==
    [workplan |-> new_plan.workplan,
     current_step_index |-> 0,
     step_results |-> EmptyDict,
     sql_queries |-> <<>>,
     ambiguities |-> new_plan.ambiguities,
     requires_clarification |-> st.requires_clarification,
     clarification_needed |-> new_plan.ambiguities # <<>>]

\* clarification_node, answers present: the returned update for `new_plan`
clarification_node_replan(st, new_plan) ==
    [workplan |-> new_plan.workplan,
     current_step_index |-> 0,
     step_results |-> EmptyDict,
     sql_queries |-> <<>>,
     ambiguities |-> new_plan.ambiguities,
     requires_clarification |-> new_plan.ambiguities # <<>>,
     clarification_needed |-> new_plan.ambiguities # <<>>]

\* mutant: the edge out of clarify is unconditional
after_clarify_AlwaysExecute(st) == "execute_step"

\* conditional edge after "clarify"
after_clarify(st) == IF st.clarification_needed THEN "END" ELSE "execute_step"

ClarifyProceed ==
    /\ pc = "clarify"
    /\ ~state.requires_clarification
    /\ state' = Merge(state, clarification_node(state))
    /\ entered' = entered \cup {"clarify"}
    /\ pc' = after_clarify(state')
    /\ llm_last' = <<>>
    /\ UNCHANGED <<compiler, cli, heuristics, clarifier, stale, raised, planner_calls, planner_last, executor_calls, agent_calls, views>>

ClarifyPause ==
    /\ pc = "clarify"
    /\ state.requires_clarification
    /\ state.clarification_answers = <<>>
    /\ state' = Merge(state, clarification_node(state))
    /\ entered' = entered \cup {"clarify"}
    /\ pc' = after_clarify(state')
    /\ llm_last' = <<>>
    /\ UNCHANGED <<compiler, cli, heuristics, clarifier, stale, raised, planner_calls, planner_last, executor_calls, agent_calls, views>>

ClarifyReplanOk ==
    /\ pc = "clarify"
    /\ state.requires_clarification
    /\ state.clarification_answers # <<>>
    /\ \E wp \in LLMWorkplans, la \in LLMAmbiguities :
          LET llm_result == [workplan |-> wp, ambiguities |-> la]
              new_plan == plan(clarified_query(state), llm_result)
          IN /\ state' = Merge(state, clarification_node_replan(state, new_plan))
             /\ planner_last' = PlannerReturned(new_plan)
             /\ llm_last' = LLMReturned(llm_result)
    /\ planner_calls' = Append(planner_calls, clarified_query(state))
    /\ entered' = entered \cup {"clarify"}
    /\ pc' = after_clarify(state')
    /\ UNCHANGED <<compiler, cli, heuristics, clarifier, stale, raised, executor_calls, agent_calls, views>>

\* planner.plan raises inside clarification_node: nothing catches it, the
\* exception leaves app.invoke and AbbottPlanExecuteWorkflow.run.
ClarifyReplanRaise ==
    /\ pc = "clarify"
    /\ state.requires_clarification
    /\ state.clarification_answers # <<>>
    /\ \E e \in LLMErrors :
          /\ raised' = <<e>>
          /\ planner_last' = PlannerRaised(e)
          /\ llm_last' = <<>>
    /\ planner_calls' = Append(planner_calls, clarified_query(state))
    /\ entered' = entered \cup {"clarify"}
    /\ pc' = "raised"
    /\ UNCHANGED <<compiler, cli, heuristics, clarifier, stale, state, executor_calls, agent_calls, views>>

\* --------------------------------------------------------------- executor
CompiledTypes == {"filter", "aggregate", "calculate", "rank"}

Source(step) == IF step.depends_on # <<>> THEN step.depends_on[1] ELSE "analyzer"

\* _generate_filter_sql .. _generate_rank_sql: every fragment is
\* WITH <id> AS ( SELECT .. FROM <source> .. ) SELECT * FROM <id>;
\* the select list and the predicates are left out here.
generate_sql(step) ==
    <<"WITH ", step.id, " AS ( SELECT FROM ", Source(step), " ) SELECT * FROM ", step.id>>

\* What the database does with a step's statements: runs the query and
\* creates the view, runs the query but refuses the CREATE VIEW, or refuses
\* the query.
DbOutcomes == {"ok", "ok_no_view", "error"}

\* _execute_sql: the statement fails when its source relation does not exist
\* and may fail for any other reason the database reports (db = "error").
execute_sql_ok(step, db, vs) == db # "error" /\ Source(step) \in vs \cup {"analyzer"}

\* _register_view: CREATE OR REPLACE TEMP VIEW <id>; a failure is only printed
register_view(step, db, vs) == IF db = "ok" THEN vs \cup {step.id} ELSE vs

\* CREATE OR REPLACE: the view of an earlier run that had the name is gone
replaced_view(step, db, old) == IF db = "ok" THEN old \ {step.id} ELSE old

\* AbbottSQLAgent.ask: answers with or without an extracted SQL text, reports
\* a failure, or raises before its own try block
AgentOutcomes == {"ok", "ok_no_sql", "fail", "raise"}

StepExecutionResult(step_id, success, sql, result, error, result_summary) ==
    [step_id |-> step_id, success |-> success, sql |-> sql, result |-> result,
     error |-> error, result_summary |-> result_summary]

\* _execute_with_agent
execute_with_agent(step, agent) ==
    IF agent \in {"ok", "ok_no_sql"}
    THEN StepExecutionResult(step.id, TRUE,
                             IF agent = "ok" THEN <<"agent sql for ", step.id>> ELSE None,
                             <<"agent output">>, None, <<"agent output">>)
    ELSE IF agent = "fail"
    THEN StepExecutionResult(step.id, FALSE, None, None, <<"error reported by SQL agent">>, None)
    ELSE StepExecutionResult(step.id, FALSE, None, None, <<"error raised by SQL agent">>, None)

\* StepExecutor.execute_step
execute_step(step, db, agent, vs) ==
    IF step.type \in CompiledTypes
    THEN IF execute_sql_ok(step, db, vs)
         THEN StepExecutionResult(step.id, TRUE, generate_sql(step), <<"rows">>, None, <<"summary">>)
         ELSE StepExecutionResult(step.id, FALSE, None, None,
                                  <<"SQL execution error: ">> \o generate_sql(step), None)
    ELSE execute_with_agent(step, agent)

Put(d, k, v) == [x \in DOMAIN d \cup {k} |-> IF x = k THEN v ELSE d[x]]

\* mutant: the cursor stays on a step that failed
execute_step_node_RetryFailed(st, result) ==
    [past_steps |-> << <<result.step_id, result>> >>,
     current_step_index |-> IF result.success THEN st.current_step_index + 1
                            ELSE st.current_step_index,
     step_results |-> Put(st.step_results, result.step_id, result),
     sql_queries |-> IF result.sql # None THEN Append(st.sql_queries, result.sql)
                     ELSE st.sql_queries,
     success |-> result.success,
     error |-> IF ~result.success THEN result.error ELSE None]

\* execute_step_node, a step is left to run
execute_step_node(st, result) ==
    [past_steps |-> << <<result.step_id, result>> >>,
     current_step_index |-> st.current_step_index + 1,
     step_results |-> Put(st.step_results, result.step_id, result),
     sql_queries |-> IF result.sql # None THEN Append(st.sql_queries, result.sql)
                     ELSE st.sql_queries,
     success |-> result.success,
     error |-> IF ~result.success THEN result.error ELSE None]

\* conditional edge after "execute_step"
after_execute(st) ==
    IF st.current_step_index >= Len(st.workplan) THEN "aggregate" ELSE "execute_step"

ExecuteNothing ==
    /\ pc = "execute_step"
    /\ state.current_step_index >= Len(state.workplan)
    /\ state' = Merge(state, [success |-> TRUE])
    /\ entered' = entered \cup {"execute_step"}
    /\ pc' = after_execute(state')
    /\ llm_last' = <<>>
    /\ UNCHANGED <<compiler, cli, heuristics, clarifier, stale, raised, planner_calls, planner_last, executor_calls, agent_calls, views>>

ExecuteCompiled ==
    /\ pc = "execute_step"
    /\ state.current_step_index < Len(state.workplan)
    /\ LET step == state.workplan[state.current_step_index + 1]
       IN /\ step.type \in CompiledTypes
          /\ \E db \in DbOutcomes :
               LET result == execute_step(step, db, "ok", views)
               IN /\ state' = Merge(state, execute_step_node(state, result))
                  /\ views' = IF result.success THEN register_view(step, db, views) ELSE views
                  /\ stale' = IF result.success THEN replaced_view(step, db, stale) ELSE stale
          /\ executor_calls' = Append(executor_calls, step.id)
    /\ entered' = entered \cup {"execute_step"}
    /\ pc' = after_execute(state')
    /\ llm_last' = <<>>
    /\ UNCHANGED <<compiler, cli, heuristics, clarifier, raised, planner_calls, planner_last, agent_calls>>

ExecuteWithAgent ==
    /\ pc = "execute_step"
    /\ state.current_step_index < Len(state.workplan)
    /\ LET step == state.workplan[state.current_step_index + 1]
       IN /\ step.type \notin CompiledTypes
          /\ \E agent \in AgentOutcomes :
               state' = Merge(state, execute_step_node(state,
                                         execute_step(step, "ok", agent, views)))
          /\ executor_calls' = Append(executor_calls, step.id)
          /\ agent_calls' = Append(agent_calls, step.id)
    /\ entered' = entered \cup {"execute_step"}
    /\ pc' = after_execute(state')
    /\ llm_last' = <<>>
    /\ UNCHANGED <<compiler, cli, heuristics, clarifier, stale, raised, planner_calls, planner_last, views>>

\* ------------------------------------------------------------- aggregation
StepLabel == <<"Step 1: ", "Step 2: ", "Step 3: ", "Step 4: ", "Step 5: ">>

\* the "Workplan Execution Summary" lines of aggregate_results_node
RECURSIVE summary_lines(_, _, _)
summary_lines(workplan, step_results, i) ==
    IF i > Len(workplan) THEN EmptyText
    ELSE LET step_id == workplan[i].id
             line == IF step_id \in DOMAIN step_results /\ step_results[step_id].success
                     THEN <<StepLabel[i], step_id, "Success">>
                     ELSE <<StepLabel[i], step_id, "Failed: ">>
                          \o (IF step_id \in DOMAIN step_results
                              THEN step_results[step_id].error
                              ELSE <<"Unknown error">>)
         IN line \o summary_lines(workplan, step_results, i + 1)

\* mutant: all() of no results counts as success
overall_success_AllOfEmpty(step_results) ==
    \A k \in DOMAIN step_results : step_results[k].success

\* "success" of aggregate_results_node
overall_success(step_results) ==
    IF DOMAIN step_results # {}
    THEN \A k \in DOMAIN step_results : step_results[k].success
    ELSE FALSE

\* mutant: the final SQL is the first query of the log
aggregate_results_node_FirstQuery(st) ==
    [final_response |-> <<"EXECUTION COMPLETE">>
                        \o summary_lines(st.workplan, st.step_results, 1),
     sql_query |-> IF st.sql_queries # <<>> THEN st.sql_queries[1] ELSE None,
     success |-> overall_success(st.step_results)]

\* aggregate_results_node
aggregate_results_node(st) ==
    [final_response |-> <<"EXECUTION COMPLETE">>
                        \o summary_lines(st.workplan, st.step_results, 1),
     sql_query |-> IF st.sql_queries # <<>> THEN st.sql_queries[Len(st.sql_queries)] ELSE None,
     success |-> overall_success(st.step_results)]

Aggregate ==
    /\ pc = "aggregate"
    /\ state' = Merge(state, aggregate_results_node(state))
    /\ entered' = entered \cup {"aggregate"}
    /\ pc' = "format_response"
    /\ llm_last' = <<>>
    /\ UNCHANGED <<compiler, cli, heuristics, clarifier, stale, raised, planner_calls, planner_last, executor_calls, agent_calls, views>>

format_response_node(st) == [final_response |-> st.final_response]

FormatResponse ==
    /\ pc = "format_response"
    /\ state' = Merge(state, format_response_node(state))
    /\ entered' = entered \cup {"format_response"}
    /\ pc' = "END"
    /\ llm_last' = <<>>
    /\ UNCHANGED <<compiler, cli, heuristics, clarifier, stale, raised, planner_calls, planner_last, executor_calls, agent_calls, views>>

Next ==
    \/ PlanOk
    \/ PlanRaise
    \/ ClarifyProceed
    \/ ClarifyPause
    \/ ClarifyReplanOk
    \/ ClarifyReplanRaise
    \/ ExecuteNothing
    \/ ExecuteCompiled
    \/ ExecuteWithAgent
    \/ Aggregate
    \/ FormatResponse

Spec == Init /\ [][Next]_vars

\* ------------------------------------------------ runs on one connection
\* AbbottPlanExecuteWorkflow.run(question) called again on the same instance
\* once a run has ended or raised: a new state, the executor and its
\* connection as the earlier runs left them. The later runs take the default
\* clarification_answers.
NextRun ==
    /\ pc \in {"END", "raised"}
    /\ \E q \in Questions : state' = initial_state(q, <<>>)
    /\ pc' = "plan"
    /\ raised' = None
    /\ planner_calls' = <<>>
    /\ planner_last' = PlannerNotCalled
    /\ llm_last' = <<>>
    /\ executor_calls' = <<>>
    /\ agent_calls' = <<>>
    /\ entered' = {}
    /\ stale' = views
    /\ UNCHANGED <<compiler, cli, heuristics, clarifier, views>>

RunsNext ==
    \/ PlanOk
    \/ PlanRaise
    \/ ClarifyProceed
    \/ ClarifyPause
    \/ ClarifyReplanOk
    \/ ClarifyReplanRaise
    \/ ExecuteNothing
    \/ ExecuteCompiled
    \/ ExecuteWithAgent
    \/ Aggregate
    \/ FormatResponse
    \/ NextRun

RunsSpec == Init /\ [][RunsNext]_vars

\* ===================================================== the SQL generators
\* The step dict handed to StepExecutor: WorkplanStep.dict().  question is a
\* text; params is the dict in insertion order, each entry with its value as
\* a sequence of strings: the string itself when the value is a str, the
\* elements when it is a list.
Param(key, value) == [key |-> key, value |-> <<value>>, is_list |-> FALSE]

ListParam(key, values) == [key |-> key, value |-> values, is_list |-> TRUE]

Step(id, type, depends_on, question, params) ==
    [id |-> id, type |-> type, depends_on |-> depends_on, question |-> <<question>>,
     params |-> params]

\* str.lower() and str.upper() on the keys and values in use
lower(s) ==
    CASE s = "Zone" -> "zone"
      [] s = "Quarters" -> "quarters"
      [] OTHER -> s

upper(s) ==
    CASE s = "q1" -> "Q1"
      [] s = "q2" -> "Q2"
      [] s = "q3" -> "Q3"
      [] s = "q4" -> "Q4"
      [] OTHER -> s

\* any(kw in p.lower() for p in params)
AnyKeyHas(params, kw) == \E i \in 1..Len(params) : lower(params[i].key) = kw

\* params.get(key, ''), for the str-valued keys group_by and metric
ParamGet(params, key) ==
    IF \E i \in 1..Len(params) : params[i].key = key
    THEN LET i == CHOOSE i \in 1..Len(params) : params[i].key = key
         IN params[i].value
    ELSE <<>>

\* Expressions of a SELECT list
Star == [op |-> "star"]
Col(name) == [op |-> "col", name |-> name]
Sum(name) == [op |-> "sum", name |-> name]
Num(n) == [op |-> "num", n |-> n]
NullIf(x, n) == [op |-> "nullif", x |-> x, n |-> n]
Div(l, r) == [op |-> "div", l |-> l, r |-> r]
Sub(l, r) == [op |-> "sub", l |-> l, r |-> r]
Mul(l, r) == [op |-> "mul", l |-> l, r |-> r]
Item(expr, alias) == [expr |-> expr, alias |-> alias]

\* Conditions of a WHERE clause
Cond(lhs, op, values) == [lhs |-> lhs, op |-> op, values |-> values]
MthNotAll == Cond("Mth", "!=", <<"All">>)

\* The text a generator returns:
\*   WITH name AS ( SELECT select FROM from [WHERE where] [GROUP BY group_by]
\*                  [ORDER BY order_by direction LIMIT limit] )
\*   SELECT * FROM outer_from
Fragment(name, select, from, where, group_by, order_by, direction, limit, outer_from) ==
    [name |-> name, select |-> select, from |-> from, where |-> where,
     group_by |-> group_by, order_by |-> order_by, direction |-> direction,
     limit |-> limit, outer_from |-> outer_from]

\* sql of a StepExecutionResult that has none
NoSql == [none |-> TRUE]

\* what the f-string of a line without the f prefix leaves in the text
UnformattedStepId == "{step['id']}"

RECURSIVE Names(_)
\* the identifiers and function calls an expression is written with
Names(e) ==
    CASE e.op = "col" -> {e.name}
      [] e.op = "sum" -> {e.name, "sum("}
      [] e.op = "nullif" -> Names(e.x)
      [] e.op \in {"div", "sub", "mul"} -> Names(e.l) \cup Names(e.r)
      [] OTHER -> {}

\* `kw in sql.lower()` for the keywords the generators look for in the
\* text of an earlier step
SqlContains(sql, kw) ==
    /\ sql # NoSql
    /\ \/ \E i \in 1..Len(sql.select) :
             kw \in Names(sql.select[i].expr) \cup {sql.select[i].alias}
       \/ kw = sql.order_by

AnalyzerDims == <<"Zone", "Brand", "Terr_Code", "TBM_Name", "Status">>

SeqToSet(s) == {s[i] : i \in 1..Len(s)}

\* the dimension columns the text of a fragment names
SqlDims(sql) ==
    {d \in SeqToSet(AnalyzerDims) :
        \/ \E i \in 1..Len(sql.select) : d \in Names(sql.select[i].expr)
        \/ \E i \in 1..Len(sql.where) : sql.where[i].lhs = d
        \/ d \in SeqToSet(sql.group_by)}

\* the dimension columns of the rows a fragment returns
RowDims(sql) ==
    IF \E i \in 1..Len(sql.select) : sql.select[i].expr = Star
    THEN SeqToSet(AnalyzerDims)
    ELSE {d \in SeqToSet(AnalyzerDims) :
             \E i \in 1..Len(sql.select) : sql.select[i].expr = Col(d)}

\* ---- _generate_filter_sql
QuarterMonths(q) ==
    CASE upper(q) = "Q1" -> <<"Jan", "Feb", "Mar">>
      [] upper(q) = "Q2" -> <<"Apr", "May", "Jun">>
      [] upper(q) = "Q3" -> <<"Jul", "Aug", "Sep">>
      [] upper(q) = "Q4" -> <<"Oct", "Nov", "Dec">>
      [] OTHER -> <<>>

RECURSIVE quarters_months(_)
quarters_months(value) ==
    IF value = <<>> THEN <<>>
    ELSE QuarterMonths(Head(value)) \o quarters_months(Tail(value))

\* the conditions one entry of params adds (the body of the loop over params)
param_conditions(p) ==
    CASE lower(p.key) = "zone" -> <<Cond("Zone", "UPPER = UPPER", p.value)>>
      [] lower(p.key) = "month" -> <<Cond("Mth", "=", p.value)>>
      [] lower(p.key) = "status" -> <<Cond("Status", "=", p.value)>>
      [] lower(p.key) = "territory" -> <<Cond("Terr_Code", "=", p.value)>>
      [] lower(p.key) = "brand" -> <<Cond("Brand", "=", p.value)>>
      [] lower(p.key) = "quarters" /\ p.is_list ->
             IF quarters_months(p.value) # <<>>
             THEN <<Cond("Mth", "IN", quarters_months(p.value))>> ELSE <<>>
      [] OTHER -> <<>>

RECURSIVE params_conditions(_)
params_conditions(params) ==
    IF params = <<>> THEN <<>>
    ELSE param_conditions(Head(params)) \o params_conditions(Tail(params))

\* months_map, in the order the dict is written
months_map ==
    << <<"january", "Jan">>, <<"february", "Feb">>, <<"march", "Mar">>, <<"april", "Apr">>,
       <<"may", "May">>, <<"june", "Jun">>, <<"july", "Jul">>, <<"august", "Aug">>,
       <<"september", "Sep">>, <<"october", "Oct">>, <<"november", "Nov">>,
       <<"december", "Dec">>,
       <<"jan", "Jan">>, <<"feb", "Feb">>, <<"mar", "Mar">>, <<"apr", "Apr">>,
       <<"jun", "Jun">>, <<"jul", "Jul">>, <<"aug", "Aug">>, <<"sep", "Sep">>,
       <<"oct", "Oct">>, <<"nov", "Nov">>, <<"dec", "Dec">> >>

\* the condition of the first month name of months_map found in the question
question_month(question) ==
    IF \E i \in 1..Len(months_map) : Contains(question, months_map[i][1])
    THEN LET i == CHOOSE i \in 1..Len(months_map) :
                      /\ Contains(question, months_map[i][1])
                      /\ \A j \in 1..(i - 1) : ~Contains(question, months_map[j][1])
         IN <<Cond("Mth", "=", <<months_map[i][2]>>)>>
    ELSE <<>>

\* mutant: the test for "total" is the wrong way round
filter_default_Inverted(question) ==
    IF ~Contains(question, "'all'") /\ Contains(question, "total")
    THEN <<MthNotAll>> ELSE <<>>

\* "Always exclude Mth='All' unless specified"
filter_default(question) ==
    IF ~Contains(question, "'all'") /\ ~Contains(question, "total")
    THEN <<MthNotAll>> ELSE <<>>

_generate_filter_sql(step) ==
    LET question == step.question
        params == step.params
        from == IF step.depends_on # <<>> THEN step.depends_on[1] ELSE "analyzer"
        c1 == filter_default(question) \o params_conditions(params)
        c2 == IF Contains(question, "delhi") /\ ~AnyKeyHas(params, "zone")
              THEN Append(c1, Cond("Zone", "UPPER =", <<"DELHI">>)) ELSE c1
        conditions == IF ~AnyKeyHas(params, "month") THEN c2 \o question_month(question)
                      ELSE c2
    IN IF conditions # <<>>
       THEN Fragment(step.id, <<Item(Star, "")>>, from, conditions, <<>>, "", "", 0, step.id)
       ELSE Fragment(step.id, <<Item(Star, "")>>, "analyzer", <<MthNotAll>>, <<>>, "", "", 0,
                     step.id)

\* ---- _generate_aggregate_sql
aggregate_dimensions(question, params) ==
    LET group_by == ParamGet(params, "group_by")
        d1 == IF Contains(question, "by brand") \/ Contains(group_by, "brand")
              THEN <<"Brand">> ELSE <<>>
        d2 == IF Contains(question, "by territory") \/ Contains(group_by, "territory")
              THEN d1 \o <<"Terr_Code", "TBM_Name">> ELSE d1
        d3 == IF Contains(question, "by zone") \/ Contains(group_by, "zone")
              THEN Append(d2, "Zone") ELSE d2
        d4 == IF Contains(question, "by status") \/ Contains(group_by, "status")
              THEN Append(d3, "Status") ELSE d3
    IN IF d4 = <<>> /\ (Contains(question, "delhi") \/ Contains(question, "zone"))
       THEN <<"Zone">> ELSE d4

aggregate_metrics(question) ==
    IF Contains(question, "primary") /\ Contains(question, "value")
    THEN <<Item(Sum("Prim_Value"), "total_primary_value"),
           Item(Sum("Tgt_Value"), "total_target_value")>>
    ELSE IF Contains(question, "secondary") /\ Contains(question, "value")
    THEN <<Item(Sum("Sec_Value"), "total_secondary_value"),
           Item(Sum("Tgt_Value"), "total_target_value")>>
    ELSE IF Contains(question, "primary") /\ Contains(question, "unit")
    THEN <<Item(Sum("Prim_Units"), "total_primary_units"),
           Item(Sum("Tgt_Units"), "total_target_units")>>
    ELSE IF Contains(question, "secondary") /\ Contains(question, "unit")
    THEN <<Item(Sum("Sec_Units"), "total_secondary_units"),
           Item(Sum("Tgt_Units"), "total_target_units")>>
    ELSE <<Item(Sum("Prim_Value"), "total_primary_value"),
           Item(Sum("Tgt_Value"), "total_target_value")>>

DimItems(dims) == [i \in 1..Len(dims) |-> Item(Col(dims[i]), "")]

_generate_aggregate_sql(step) ==
    LET source == IF step.depends_on # <<>> THEN step.depends_on[1] ELSE "analyzer"
        group_by_parts == aggregate_dimensions(step.question, step.params)
        select_parts == DimItems(group_by_parts) \o aggregate_metrics(step.question)
    IN Fragment(step.id, select_parts, source, <<>>, group_by_parts, "", "", 0, step.id)

\* ---- _generate_calculate_sql
\* previous_results: step id -> the dict of that step's StepExecutionResult,
\* here its sql and the dimension columns its printed form names
PreviousResult(sql, columns) == [sql |-> sql, columns |-> columns]

has_aggregated_columns(source, previous_results) ==
    /\ source # "analyzer"
    /\ source \in DOMAIN previous_results
    /\ previous_results[source].sql # NoSql
    /\ SqlContains(previous_results[source].sql, "sum(")

\* mutant: the secondary achievement over raw sums divides by the bare sum
calculation_UnguardedSecondary(question, metric, aggregated) ==
    IF \/ ContainsAny(question, {"achievement", "achieve", "target"})
       \/ Contains(metric, "achievement")
    THEN IF Contains(question, "secondary") \/ Contains(metric, "secondary")
         THEN IF aggregated
              THEN Item(Mul(Div(Col("total_secondary_value"),
                                NullIf(Col("total_target_value"), 0)), Num(100)),
                        "achievement_pct")
              ELSE Item(Mul(Div(Sum("Sec_Value"), Sum("Tgt_Value")), Num(100)),
                        "achievement_pct")
         ELSE IF aggregated
              THEN Item(Mul(Div(Col("total_primary_value"),
                                NullIf(Col("total_target_value"), 0)), Num(100)),
                        "achievement_pct")
              ELSE Item(Mul(Div(Sum("Prim_Value"), NullIf(Sum("Tgt_Value"), 0)), Num(100)),
                        "achievement_pct")
    ELSE IF Contains(question, "growth") \/ Contains(metric, "growth")
    THEN IF Contains(question, "primary") \/ Contains(metric, "primary")
         THEN Item(Mul(Div(Sub(Sum("Prim_Value"), Sum("LY_Prim_Value")),
                           NullIf(Sum("LY_Prim_Value"), 0)), Num(100)), "growth_pct")
         ELSE Item(Mul(Div(Sub(Sum("Sec_Value"), Sum("LY_Sec_Value")),
                           NullIf(Sum("LY_Sec_Value"), 0)), Num(100)), "growth_pct")
    ELSE IF Contains(question, "gap") \/ Contains(metric, "gap")
    THEN IF aggregated
         THEN Item(Sub(Col("total_target_value"), Col("total_primary_value")),
                   "performance_gap")
         ELSE Item(Sub(Sum("Tgt_Value"), Sum("Prim_Value")), "performance_gap")
    ELSE IF aggregated THEN Item(Col("total_primary_value"), "value")
         ELSE Item(Sum("Prim_Value"), "value")

\* `calculation`: the formula column, by question and metric
calculation(question, metric, aggregated) ==
    IF \/ ContainsAny(question, {"achievement", "achieve", "target"})
       \/ Contains(metric, "achievement")
    THEN IF Contains(question, "secondary") \/ Contains(metric, "secondary")
         THEN IF aggregated
              THEN Item(Mul(Div(Col("total_secondary_value"),
                                NullIf(Col("total_target_value"), 0)), Num(100)),
                        "achievement_pct")
              ELSE Item(Mul(Div(Sum("Sec_Value"), NullIf(Sum("Tgt_Value"), 0)), Num(100)),
                        "achievement_pct")
         ELSE IF aggregated
              THEN Item(Mul(Div(Col("total_primary_value"),
                                NullIf(Col("total_target_value"), 0)), Num(100)),
                        "achievement_pct")
              ELSE Item(Mul(Div(Sum("Prim_Value"), NullIf(Sum("Tgt_Value"), 0)), Num(100)),
                        "achievement_pct")
    ELSE IF Contains(question, "growth") \/ Contains(metric, "growth")
    THEN IF Contains(question, "primary") \/ Contains(metric, "primary")
         THEN Item(Mul(Div(Sub(Sum("Prim_Value"), Sum("LY_Prim_Value")),
                           NullIf(Sum("LY_Prim_Value"), 0)), Num(100)), "growth_pct")
         ELSE Item(Mul(Div(Sub(Sum("Sec_Value"), Sum("LY_Sec_Value")),
                           NullIf(Sum("LY_Sec_Value"), 0)), Num(100)), "growth_pct")
    ELSE IF Contains(question, "gap") \/ Contains(metric, "gap")
    THEN IF aggregated
         THEN Item(Sub(Col("total_target_value"), Col("total_primary_value")),
                   "performance_gap")
         ELSE Item(Sub(Sum("Tgt_Value"), Sum("Prim_Value")), "performance_gap")
    ELSE IF aggregated THEN Item(Col("total_primary_value"), "value")
         ELSE Item(Sum("Prim_Value"), "value")

\* str(context.get('previous_results', {})) names the column
PrintedDims(previous_results) ==
    UNION {previous_results[d].columns : d \in DOMAIN previous_results}

\* col.lower() in question, for the columns of AnalyzerDims
DimInQuestion(question, col) ==
    CASE col = "Zone" -> Contains(question, "zone")
      [] col = "Brand" -> Contains(question, "brand")
      [] col = "Terr_Code" -> Contains(question, "terr_code")
      [] col = "TBM_Name" -> Contains(question, "tbm_name")
      [] col = "Status" -> Contains(question, "status")
      [] OTHER -> FALSE

calculate_dims(question, previous_results) ==
    SelectSeq(AnalyzerDims,
              LAMBDA col : DimInQuestion(question, col) \/ col \in PrintedDims(previous_results))

\* _build_context: the results of the dependencies that have one
_build_context(step, previous_results) ==
    [d \in DOMAIN previous_results \cap SeqToSet(step.depends_on) |-> previous_results[d]]

_generate_calculate_sql(step, previous_results) ==
    LET source == IF step.depends_on # <<>> THEN step.depends_on[1] ELSE "analyzer"
        aggregated == has_aggregated_columns(source, previous_results)
        formula == calculation(step.question, ParamGet(step.params, "metric"), aggregated)
        group_by == calculate_dims(step.question, previous_results)
        where == IF source = "analyzer" THEN <<MthNotAll>> ELSE <<>>
    IN IF aggregated
       THEN Fragment(step.id, <<Item(Star, ""), formula>>, source, <<>>, <<>>, "", "", 0, step.id)
       ELSE IF group_by # <<>>
       THEN Fragment(step.id, Append(DimItems(group_by), formula), source, where, group_by,
                     "", "", 0, step.id)
       ELSE Fragment(step.id, <<formula>>, source, where, <<>>, "", "", 0, UnformattedStepId)

\* ---- _generate_rank_sql
\* prev_sql = context['previous_results'][source].get('sql', '').lower()
\* raises AttributeError when the earlier result's sql is None
rank_raises(step, previous_results) ==
    LET source == IF step.depends_on # <<>> THEN step.depends_on[1] ELSE "analyzer"
    IN source \in DOMAIN previous_results /\ previous_results[source].sql = NoSql

RankAliases ==
    <<"achievement_pct", "growth_pct", "total_secondary_value", "total_primary_value",
      "performance_gap">>

\* order_by as the text of the earlier step decides it; "" when it does not
order_by_previous(source, previous_results) ==
    IF /\ source \in DOMAIN previous_results
       /\ \E i \in 1..Len(RankAliases) : SqlContains(previous_results[source].sql, RankAliases[i])
    THEN LET i == CHOOSE i \in 1..Len(RankAliases) :
                      /\ SqlContains(previous_results[source].sql, RankAliases[i])
                      /\ \A j \in 1..(i - 1) :
                            ~SqlContains(previous_results[source].sql, RankAliases[j])
         IN RankAliases[i]
    ELSE ""

order_by_question(question) ==
    IF Contains(question, "achievement") THEN "achievement_pct"
    ELSE IF Contains(question, "growth") THEN "growth_pct"
    ELSE IF Contains(question, "gap") THEN "performance_gap"
    ELSE IF ContainsAny(question, {"value", "sales"}) /\ Contains(question, "secondary")
    THEN "total_secondary_value"
    ELSE "total_primary_value"

rank_direction(question) ==
    IF ContainsAny(question, {"top", "highest", "best"}) THEN "DESC"
    ELSE IF ContainsAny(question, {"bottom", "lowest", "worst", "underperform"}) THEN "ASC"
    ELSE "DESC"

\* re.findall(r'\d+', question)
numbers(question) == IF question = <<>> THEN <<>> ELSE Numbers(question[1])

\* mutant: the last number of the question is taken
rank_limit_LastNumber(question) ==
    IF numbers(question) # <<>> THEN numbers(question)[Len(numbers(question))] ELSE 5

rank_limit(question) ==
    IF numbers(question) # <<>> THEN numbers(question)[1] ELSE 5

_generate_rank_sql(step, previous_results) ==
    LET source == IF step.depends_on # <<>> THEN step.depends_on[1] ELSE "analyzer"
        found == order_by_previous(source, previous_results)
        order_by == IF found # "" THEN found ELSE order_by_question(step.question)
    IN Fragment(step.id, <<Item(Star, "")>>, source, <<>>, <<>>, order_by,
                rank_direction(step.question), rank_limit(step.question), step.id)

\* ---- StepExecutor.execute_step on the steps of a plan, one after another
FilterQuestions == {FQDelhi, FQEveryTotal, FQStatusAll, FQPrimaryApr, FQMarch}

FilterParams ==
    {<<>>, <<Param("Zone", "DELHI")>>, <<Param("month", "Apr")>>, <<Param("quarters", "Q1")>>,
     <<ListParam("quarters", <<"Q1", "q3">>)>>,
     <<Param("brand", "CREMAFFIN"), Param("quarters", "Q1, Q2")>>}

AggregateQuestions == {AQBrandSecondary, AQDelhiPrimary, AQUnits, AQPlain}

AggregateParams == {<<>>, <<Param("group_by", PVBrand)>>}

CalculateQuestions == {CQAchievement, CQAchievementSec, CQGrowth, CQGrowthPrim, CQGap, CQDefault}

CalculateParams ==
    {<<>>, <<Param("metric", PVSecondaryAchievement)>>, <<Param("metric", PVGrowth)>>}

RankQuestions ==
    {RQTop5Secondary, RQQ1Top5, RQTopWorst, RQBottom, RQLowestGrowth, RQGap, RQPlain}

\* the steps of the four compiled types, as step `id` with `depends_on`
CompiledSteps(id, depends_on) ==
    {Step(id, "filter", depends_on, q, p) : q \in FilterQuestions, p \in FilterParams}
    \cup {Step(id, "aggregate", depends_on, q, p) :
             q \in AggregateQuestions, p \in AggregateParams}
    \cup {Step(id, "calculate", depends_on, q, p) :
             q \in CalculateQuestions, p \in CalculateParams}
    \cup {Step(id, "rank", depends_on, q, <<>>) : q \in RankQuestions}

\* the steps that come before the last one in the plans below
EarlierSteps(id, depends_on) ==
    {Step(id, "filter", depends_on, FQDelhi, <<>>),
     Step(id, "aggregate", depends_on, AQBrandSecondary, <<>>),
     Step(id, "aggregate", depends_on, AQDelhiPrimary, <<>>),
     Step(id, "aggregate", depends_on, AQUnits, <<>>),
     Step(id, "calculate", depends_on, CQAchievement, <<>>),
     Step(id, "calculate", depends_on, CQGrowth, <<>>),
     Step(id, "calculate", depends_on, CQGap, <<>>)}

\* plans of one to three steps; the last step reads the base table, a step
\* id the plan does not have, or the step before it
StepPlans ==
    {<<s>> : s \in CompiledSteps("step_1", <<>>) \cup CompiledSteps("step_1", <<"step_2">>)}
    \cup {<<e, s>> : e \in EarlierSteps("step_1", <<>>),
                     s \in CompiledSteps("step_2", <<"step_1">>)}
    \cup {<<Step("step_1", "aggregate", <<>>, AQBrandSecondary, <<>>), e, s>> :
             e \in {Step("step_2", "calculate", <<"step_1">>, q, <<>>) :
                       q \in {CQAchievementSec, CQGap}},
             s \in CompiledSteps("step_3", <<"step_2">>)}

CompilerInit ==
    /\ state = initial_state(<<>>, <<>>)
    /\ pc = "off"
    /\ raised = None
    /\ planner_calls = <<>>
    /\ planner_last = PlannerNotCalled
    /\ llm_last = <<>>
    /\ executor_calls = <<>>
    /\ agent_calls = <<>>
    /\ views = {}
    /\ entered = {}
    /\ stale = {}
    /\ cli = NotInUse
    /\ heuristics = NotInUse
    /\ clarifier = NotInUse
    /\ \E workplan \in StepPlans :
          compiler = [pc |-> "generate", workplan |-> workplan, index |-> 1,
                      step_results |-> EmptyDict, sql |-> NoSql, raised |-> FALSE]

\* the step being executed, and the context _build_context gives the generator
CurrentStep == compiler.workplan[compiler.index]

CurrentContext == _build_context(CurrentStep, compiler.step_results)

\* the generator has returned `sql`
Generated(sql) ==
    /\ compiler' = [compiler EXCEPT !.sql = sql,
                                    !.pc = IF compiler.index = Len(compiler.workplan)
                                           THEN "done" ELSE "execute"]
    /\ UNCHANGED <<workflow_vars, cli, heuristics, clarifier>>

GenerateFilter ==
    /\ compiler.pc = "generate"
    /\ CurrentStep.type = "filter"
    /\ Generated(_generate_filter_sql(CurrentStep))

GenerateAggregate ==
    /\ compiler.pc = "generate"
    /\ CurrentStep.type = "aggregate"
    /\ Generated(_generate_aggregate_sql(CurrentStep))

GenerateCalculate ==
    /\ compiler.pc = "generate"
    /\ CurrentStep.type = "calculate"
    /\ Generated(_generate_calculate_sql(CurrentStep, CurrentContext))

GenerateRank ==
    /\ compiler.pc = "generate"
    /\ CurrentStep.type = "rank"
    /\ ~rank_raises(CurrentStep, CurrentContext)
    /\ Generated(_generate_rank_sql(CurrentStep, CurrentContext))

\* the generator raises; execute_step returns a failed result without sql
GenerateRankRaise ==
    /\ compiler.pc = "generate"
    /\ CurrentStep.type = "rank"
    /\ rank_raises(CurrentStep, CurrentContext)
    /\ compiler' = [compiler EXCEPT !.sql = NoSql, !.raised = TRUE, !.pc = "done"]
    /\ UNCHANGED <<workflow_vars, cli, heuristics, clarifier>>

\* _execute_sql on the generated text: rows, no rows, or an error whose text
\* quotes the SQL; then the next step of the plan
ExecuteSql ==
    /\ compiler.pc = "execute"
    /\ \E outcome \in {"rows", "no_rows", "error"} :
          LET sql == compiler.sql
              result == PreviousResult(IF outcome = "error" THEN NoSql ELSE sql,
                                       SqlDims(sql) \cup
                                           (IF outcome = "rows" THEN RowDims(sql) ELSE {}))
          IN compiler' = [compiler EXCEPT
                             !.step_results = Put(compiler.step_results, CurrentStep.id, result),
                             !.index = compiler.index + 1,
                             !.sql = NoSql,
                             !.pc = "generate"]
    /\ UNCHANGED <<workflow_vars, cli, heuristics, clarifier>>

CompilerNext ==
    \/ GenerateFilter
    \/ GenerateAggregate
    \/ GenerateCalculate
    \/ GenerateRank
    \/ GenerateRankRaise
    \/ ExecuteSql

CompilerSpec == CompilerInit /\ [][CompilerNext]_vars

\* ------------------------------------------------------------ CLI wrapper
\* InteractiveWorkflow.run_with_clarifications (langgraph_cli.py).  One call
\* of self.workflow.app.invoke is taken as a whole: the state it returns, or
\* the exception that leaves it.

\* longest workplan the structured-output call returns to a wrapped run
MaxWrapperSteps == 1

WrapperLLMResults ==
    [workplan : {wp \in LLMWorkplans : Len(wp) <= MaxWrapperSteps},
     ambiguities : LLMAmbiguities]

\* the states planning_node can leave behind
Planned(st) ==
    {Merge(st, planning_node_ok(st, plan(st.input, r))) : r \in WrapperLLMResults}
        \cup {Merge(st, planning_node_except(st, e)) : e \in LLMErrors}

\* clarification_node calls the planner again
Replans(st) == st.requires_clarification /\ st.clarification_answers # <<>>

\* the states clarification_node can leave behind when it returns
Clarified(st) ==
    IF Replans(st)
    THEN {Merge(st, clarification_node_replan(st, plan(clarified_query(st), r)))
             : r \in WrapperLLMResults}
    ELSE {Merge(st, clarification_node(st))}

\* the run ends after clarify, or goes on through execute_step,
\* aggregate_results and format_response, which leave input, ambiguities and
\* the clarification fields alone; of what they write only `success` is kept
Finished(st) ==
    IF after_clarify(st) = "END"
    THEN {st}
    ELSE {Merge(st, [success |-> s]) : s \in BOOLEAN}

\* app.invoke(initial_state): the states it can return
invoke(st) == UNION { UNION { Finished(st2) : st2 \in Clarified(st1) } : st1 \in Planned(st) }

\* app.invoke(initial_state) can raise: the planner fails inside clarification_node
invoke_raises(st) == \E st1 \in Planned(st) : Replans(st1)

\* answers[ambiguity] = answer on a dict that keeps insertion order
DictSet(d, k, v) ==
    IF \E i \in 1..Len(d) : d[i][1] = k
    THEN [i \in 1..Len(d) |-> IF d[i][1] = k THEN <<k, v>> ELSE d[i]]
    ELSE Append(d, <<k, v>>)

\* the answers the user may type at a prompt
PromptAnswers == {<<AnsPrimaryValue>>, <<AnsLastQuarter>>}

\* mutant: each answer is stored under the text the user typed
answer_key_Typed(ambiguity, answer) == answer

\* the key of answers[ambiguity] = answer
answer_key(ambiguity, answer) == ambiguity

\* the loop over result["ambiguities"]: the first n prompts answered by `typed`
RECURSIVE collect_answers(_, _, _)
collect_answers(ambiguities, typed, n) ==
    IF n = 0 THEN <<>>
    ELSE DictSet(collect_answers(ambiguities, typed, n - 1),
                 answer_key(ambiguities[n], typed[n]), typed[n])

\* result.get("clarification_needed", False) and result.get("ambiguities")
needs_clarification(result) == result.clarification_needed /\ result.ambiguities # <<>>

\* mutant: the call loses the answers it was given
Call_AnswersDropped(question, clarification_answers, invocations, surfaced, pending, prompts) ==
    [pc |-> "invoke",
     question |-> question,
     clarification_answers |-> <<>>,
     result |-> None,
     invocations |-> invocations,
     surfaced |-> surfaced,
     pending |-> pending,
     prompts |-> prompts]

\* a call run_with_clarifications(question, clarification_answers) about to
\* reach app.invoke.  Kept beside the call's own variables: invocations,
\* every state handed to app.invoke so far; surfaced, of the same length, the
\* ambiguities of the result that led to each invocation (none for the
\* first); pending, the ambiguities the caller prompted for; prompts, the
\* rounds of prompts so far.
Call(question, clarification_answers, invocations, surfaced, pending, prompts) ==
    [pc |-> "invoke",
     question |-> question,
     clarification_answers |-> clarification_answers,
     result |-> None,
     invocations |-> invocations,
     surfaced |-> surfaced,
     pending |-> pending,
     prompts |-> prompts]

\* `ask`: the question, and the answers of --clarify (none when it is absent)
WrapperInit ==
    /\ state = initial_state(<<>>, <<>>)
    /\ pc = "off"
    /\ raised = None
    /\ planner_calls = <<>>
    /\ planner_last = PlannerNotCalled
    /\ llm_last = <<>>
    /\ executor_calls = <<>>
    /\ agent_calls = <<>>
    /\ views = {}
    /\ entered = {}
    /\ stale = {}
    /\ compiler = NotInUse
    /\ heuristics = NotInUse
    /\ clarifier = NotInUse
    /\ \E q \in Questions, a \in AnswerSets : cli = Call(q, a, <<>>, <<>>, <<>>, 0)

\* the state handed to app.invoke by the current call
WrapperState == initial_state(cli.question, cli.clarification_answers)

\* app.invoke has been called after a result with ambiguities `surfaced`
Invoked(surfaced) ==
    [cli EXCEPT !.invocations = Append(cli.invocations, WrapperState),
                !.surfaced = Append(cli.surfaced, surfaced)]

\* line 55, app.invoke returns
WrapperInvoke ==
    /\ cli.pc = "invoke"
    /\ \E result \in invoke(WrapperState) :
          cli' = [Invoked(cli.pending)
                     EXCEPT !.result = result, !.pc = "check"]
    /\ UNCHANGED <<workflow_vars, compiler, heuristics, clarifier>>

\* line 55, app.invoke raises: the exception leaves run_with_clarifications
WrapperInvokeRaise ==
    /\ cli.pc = "invoke"
    /\ invoke_raises(WrapperState)
    /\ cli' = [Invoked(cli.pending)
                  EXCEPT !.pc = "raised"]
    /\ UNCHANGED <<workflow_vars, compiler, heuristics, clarifier>>

\* lines 59-74: no answers were passed in; one prompt per ambiguity, then the
\* recursive call, whose result is returned as it is
WrapperPrompt ==
    /\ cli.pc = "check"
    /\ needs_clarification(cli.result)
    /\ cli.clarification_answers = <<>>
    /\ \E typed \in [1..Len(cli.result.ambiguities) -> PromptAnswers] :
          LET answers == collect_answers(cli.result.ambiguities, typed,
                                         Len(cli.result.ambiguities))
          IN cli' = Call(cli.question, answers, cli.invocations, cli.surfaced,
                         cli.result.ambiguities, cli.prompts + 1)
    /\ UNCHANGED <<workflow_vars, compiler, heuristics, clarifier>>

\* lines 75-78: answers were passed in; the same state is invoked again
WrapperReinvoke ==
    /\ cli.pc = "check"
    /\ needs_clarification(cli.result)
    /\ cli.clarification_answers # <<>>
    /\ \E result \in invoke(WrapperState) :
          cli' = [Invoked(cli.result.ambiguities) EXCEPT !.result = result, !.pc = "returned"]
    /\ UNCHANGED <<workflow_vars, compiler, heuristics, clarifier>>

WrapperReinvokeRaise ==
    /\ cli.pc = "check"
    /\ needs_clarification(cli.result)
    /\ cli.clarification_answers # <<>>
    /\ invoke_raises(WrapperState)
    /\ cli' = [Invoked(cli.result.ambiguities) EXCEPT !.pc = "raised"]
    /\ UNCHANGED <<workflow_vars, compiler, heuristics, clarifier>>

\* line 80
WrapperReturn ==
    /\ cli.pc = "check"
    /\ ~needs_clarification(cli.result)
    /\ cli' = [cli EXCEPT !.pc = "returned"]
    /\ UNCHANGED <<workflow_vars, compiler, heuristics, clarifier>>

WrapperNext ==
    \/ WrapperInvoke
    \/ WrapperInvokeRaise
    \/ WrapperPrompt
    \/ WrapperReinvoke
    \/ WrapperReinvokeRaise
    \/ WrapperReturn

WrapperSpec == WrapperInit /\ [][WrapperNext]_vars

\* ----------------------------------------------------- static heuristics
\* SimplePlanner._detect_ambiguities called on its own, for a question and
\* the vocabulary of a schema descriptor.

\* longest vocabulary
MaxTerms == 2

HeuristicQueries ==
    {<<QSalesDelhi>>, <<QTargetsLastMonth>>, <<QShowAll>>, <<HQPrimaryLastMonth>>,
     <<HQSalesQ1>>, <<HQAchievementThisQuarter>>, <<HQSecondaryMarch>>, <<HQCurrentTarget>>,
     <<HQGrowth>>}

VocabularyTerms ==
    {Term("achievement", TRUE, <<"primary", "secondary">>, <<AmbAchievement>>),
     Term("achieve", TRUE, <<>>, <<AmbAchievement>>),
     Term("sales", TRUE, <<"primary", "secondary">>, <<GuardSales>>),
     Term("target", TRUE, <<>>, None),
     Term("growth", FALSE, <<>>, None)}

\* the vocabularies of at most MaxTerms terms, no term twice
Vocabularies ==
    UNION { {v \in [1..n -> VocabularyTerms] : \A i, j \in 1..n : i # j => v[i] # v[j]}
            : n \in 0..MaxTerms }

HeuristicsInit ==
    /\ state = initial_state(<<>>, <<>>)
    /\ pc = "off"
    /\ raised = None
    /\ planner_calls = <<>>
    /\ planner_last = PlannerNotCalled
    /\ llm_last = <<>>
    /\ executor_calls = <<>>
    /\ agent_calls = <<>>
    /\ views = {}
    /\ entered = {}
    /\ stale = {}
    /\ compiler = NotInUse
    /\ cli = NotInUse
    /\ clarifier = NotInUse
    /\ \E query \in HeuristicQueries, vocab \in Vocabularies :
          heuristics = [pc |-> "detect", query |-> query, vocabulary |-> vocab,
                        ambiguities |-> <<>>]

DetectAmbiguities ==
    /\ heuristics.pc = "detect"
    /\ heuristics' = [heuristics EXCEPT
                         !.ambiguities = detect_ambiguities(heuristics.query,
                                                            heuristics.vocabulary),
                         !.pc = "done"]
    /\ UNCHANGED <<workflow_vars, compiler, cli, clarifier>>

HeuristicsNext == DetectAmbiguities

HeuristicsSpec == HeuristicsInit /\ [][HeuristicsNext]_vars

\* ---------------------------------------------------------- QueryClarifier
\* QueryClarifier.clarify (clarifier.py).  A dict is a sequence of
\* <<key, value>> pairs; the keys of an intent whose value is null or
\* missing are listed in its field `null`.

\* `not data.get(k)`
Falsy(data, k) == k \in data.null \/ data[k] = <<>>

IssueUnclear == " unclear_metric "
\* an issue that quotes column names in backticks, as code
IssueCode == "[Prim_Value] or [Sec_Value]"
AskMetric == "Which metric do you mean?"

\* str.strip
strip(s) == IF s = IssueUnclear THEN "unclear_metric" ELSE s

\* "`" in s
HasBacktick(s) == s = IssueCode

Ambiguity(issue, suggested_clarification) ==
    [issue |-> issue, suggested_clarification |-> suggested_clarification]

\* the loop of _normalize_intent over one ambiguity
clean_ambiguity(a) ==
    LET issue == strip(a.issue)
        question == strip(a.suggested_clarification)
    IN IF HasBacktick(issue) \/ HasBacktick(question)
       THEN Ambiguity("invalid_content", "Please clarify your last request.")
       ELSE Ambiguity(issue, question)

\* QueryClarifier._normalize_intent
_normalize_intent(data) ==
    [data EXCEPT
        !.metrics_needed = IF Falsy(data, "metrics_needed") THEN <<>> ELSE @,
        !.granularity = IF Falsy(data, "granularity") THEN <<>> ELSE @,
        !.time_context = IF Falsy(data, "time_context") THEN <<>> ELSE @,
        !.null = @ \ {"metrics_needed", "granularity", "time_context"},
        !.requires_clarification = ~Falsy(data, "ambiguities"),
        !.ambiguities = [i \in 1..Len(data.ambiguities) |-> clean_ambiguity(data.ambiguities[i])]]

\* QueryClarifier._convert_initial_to_intent
_convert_initial_to_intent ==
    [metrics_needed |-> <<>>,
     calculated_metrics |-> <<>>,
     granularity |-> <<>>,
     time_context |-> <<>>,
     ambiguities |-> <<>>,
     requires_clarification |-> TRUE,
     null |-> {}]

critical_keys == {"metrics_needed", "granularity", "time_context"}

\* mutant: the check fires only when every critical section is empty
critical_section_empty_All(intent_data) == \A k \in critical_keys : Falsy(intent_data, k)

\* any(not intent_data.get(k) for k in critical_keys)
critical_section_empty(intent_data) == \E k \in critical_keys : Falsy(intent_data, k)

\* the ambiguity the sanity check puts in (its dash is an en dash in the source)
MissingFields ==
    Ambiguity("missing_fields", "Some required fields were empty - please clarify.")

\* the sanity check of clarify
sanity_check(intent_data) ==
    IF Falsy(intent_data, "ambiguities") /\ critical_section_empty(intent_data)
    THEN [intent_data EXCEPT !.ambiguities = <<MissingFields>>,
                             !.requires_clarification = TRUE]
    ELSE intent_data

\* _dedupe_metrics, the de-duplication (the schema gives no column types)
RECURSIVE _dedupe_metrics(_)
_dedupe_metrics(metrics) ==
    IF metrics = <<>> THEN <<>>
    ELSE LET before == _dedupe_metrics(SubSeq(metrics, 1, Len(metrics) - 1))
             m == metrics[Len(metrics)]
         IN IF \E i \in 1..Len(before) : before[i] = m THEN before ELSE Append(before, m)

\* QueryClarifier._normalise_month on a period the intent names
_normalise_month(month) == IF month = "april" THEN "Apr" ELSE month

\* QueryIntent(**intent_data) and _apply_business_rules, for the fields kept here
_apply_business_rules(intent) ==
    LET extended ==
            IF /\ \E i \in 1..Len(intent.calculated_metrics) :
                     intent.calculated_metrics[i] = "achievement_pct"
               /\ ~\E i \in 1..Len(intent.metrics_needed) :
                     intent.metrics_needed[i] \in {"Prim_Value", "Sec_Value"}
            THEN intent.metrics_needed \o <<"Prim_Value", "Tgt_Value">>
            ELSE intent.metrics_needed
    IN [intent EXCEPT
           !.metrics_needed = _dedupe_metrics(extended),
           !.time_context = [i \in 1..Len(@) |-> <<@[i][1], _normalise_month(@[i][2])>>]]

\* what the second model call may answer
IntentData ==
    {d \in [metrics_needed : {<<>>, <<"Sec_Value", "Sec_Value">>},
            calculated_metrics : {<<>>, <<"achievement_pct">>},
            granularity : {<<>>, << <<"geography", "Zone">> >>},
            time_context : {<<>>, << <<"primary_period", "april">> >>},
            ambiguities : {<<>>, <<Ambiguity(IssueUnclear, AskMetric)>>,
                           <<Ambiguity(IssueCode, AskMetric)>>},
            requires_clarification : {FALSE},
            null : {{}, {"metrics_needed"}, {"granularity", "time_context"}}]
        : \A k \in d.null : d[k] = <<>>}

\* what the first model call may answer: no JSON at all, or an understanding
\* that asks for the schema lookup or not
InitialUnderstandings == {"", "needs_schema_lookup", "no_schema_lookup"}

ClarifierInit ==
    /\ state = initial_state(<<>>, <<>>)
    /\ pc = "off"
    /\ raised = None
    /\ planner_calls = <<>>
    /\ planner_last = PlannerNotCalled
    /\ llm_last = <<>>
    /\ executor_calls = <<>>
    /\ agent_calls = <<>>
    /\ views = {}
    /\ entered = {}
    /\ stale = {}
    /\ compiler = NotInUse
    /\ cli = NotInUse
    /\ heuristics = NotInUse
    /\ \E initial \in InitialUnderstandings, final \in IntentData :
          clarifier = [pc |-> "phase1", initial_understanding |-> initial,
                       final_response |-> final, intent_data |-> None, intent |-> None]

\* json.loads of an empty first answer raises
ClarifyRaise ==
    /\ clarifier.pc = "phase1"
    /\ clarifier.initial_understanding = ""
    /\ clarifier' = [clarifier EXCEPT !.pc = "raised"]
    /\ UNCHANGED <<workflow_vars, compiler, cli, heuristics>>

\* phase 2 with the schema lookup: the final answer, normalized
NormalizeIntent ==
    /\ clarifier.pc = "phase1"
    /\ clarifier.initial_understanding = "needs_schema_lookup"
    /\ clarifier' = [clarifier EXCEPT
                        !.intent_data = _normalize_intent(clarifier.final_response),
                        !.pc = "sanity"]
    /\ UNCHANGED <<workflow_vars, compiler, cli, heuristics>>

\* no schema lookup: the initial understanding is converted
ConvertInitial ==
    /\ clarifier.pc = "phase1"
    /\ clarifier.initial_understanding = "no_schema_lookup"
    /\ clarifier' = [clarifier EXCEPT !.intent_data = _convert_initial_to_intent,
                                      !.pc = "sanity"]
    /\ UNCHANGED <<workflow_vars, compiler, cli, heuristics>>

\* the sanity check, then the intent with the business rules applied
SanityCheck ==
    /\ clarifier.pc = "sanity"
    /\ clarifier' = [clarifier EXCEPT
                        !.intent = _apply_business_rules(sanity_check(clarifier.intent_data)),
                        !.pc = "returned"]
    /\ UNCHANGED <<workflow_vars, compiler, cli, heuristics>>

ClarifierNext ==
    \/ ClarifyRaise
    \/ NormalizeIntent
    \/ ConvertInitial
    \/ SanityCheck

ClarifierSpec == ClarifierInit /\ [][ClarifierNext]_vars

\* ================================================================== claims
Paused == pc = "END" /\ state.clarification_needed

PlanningRaised == Len(planner_calls) = 1 /\ planner_last.raised

ReplanRaised == Len(planner_calls) = 2 /\ planner_last.raised

\* C1: once the planning node has run, and after any re-plan by the
\* clarification gate, requires_clarification is true exactly when the
\* ambiguities list is non-empty.
C1_RequiresIffAmbiguities ==
    pc # "plan" => (state.requires_clarification <=> state.ambiguities # <<>>)

C1_Witness ==
    /\ Len(planner_calls) = 2
    /\ ~planner_last.raised
    /\ state.ambiguities = <<>>
    /\ ~state.requires_clarification
    /\ pc = "execute_step"

\* C2: a run whose planner calls all returned leaves the gate paused
\* (clarification_needed, no step executed, no report) exactly when the
\* plan at the gate has ambiguities and either no answers were supplied or
\* the rebuilt plan still has ambiguities; otherwise it goes to execute_step
\* with clarification_needed false; and the paused outcome is entered from
\* no node but clarify.
C2_PausedIffStillAmbiguous ==
    [][ /\ (pc = "clarify" /\ state.success /\ ~planner_last'.raised) =>
            LET stays == /\ state.ambiguities # <<>>
                         /\ \/ state.clarification_answers = <<>>
                            \/ state'.ambiguities # <<>>
            IN IF stays
               THEN /\ pc' = "END"
                    /\ state'.clarification_needed
                    /\ executor_calls' = <<>>
                    /\ state'.final_response = EmptyText
               ELSE /\ pc' = "execute_step"
                    /\ ~state'.clarification_needed
        /\ (pc # "END" /\ pc' = "END" /\ state'.clarification_needed) => pc = "clarify"
        /\ (pc = "END" /\ state.clarification_needed) =>
              (executor_calls = <<>> /\ "aggregate" \notin entered)
      ]_vars

C2_Witness ==
    /\ Paused
    /\ Len(planner_calls) = 2
    /\ state.clarification_answers # <<>>
    /\ state.ambiguities # <<>>

\* C3: a gate that pauses (requires_clarification, no answers) leaves the
\* workplan, the step cursor, step_results and the query log as they were
\* and calls neither the planner nor the executor.
C3_PauseTouchesNothing ==
    [][ (pc = "clarify" /\ state.requires_clarification
           /\ state.clarification_answers = <<>>) =>
            /\ pc' = "END"
            /\ state'.workplan = state.workplan
            /\ state'.current_step_index = state.current_step_index
            /\ state'.step_results = state.step_results
            /\ state'.sql_queries = state.sql_queries
            /\ planner_calls' = planner_calls
            /\ executor_calls' = executor_calls
            /\ agent_calls' = agent_calls
      ]_vars

C3_Witness ==
    /\ Paused
    /\ state.clarification_answers = <<>>
    /\ Len(planner_calls) = 1
    /\ Len(state.workplan) = MaxSteps

\* C4: a gate entered with requires_clarification false changes nothing in
\* the run state, with or without clarification answers, does not call the
\* planner, and a second invocation on the result changes nothing either.
C4_GateNoOpWhenClear ==
    [][ (pc = "clarify" /\ ~state.requires_clarification) =>
            /\ state' = state
            /\ planner_calls' = planner_calls
            /\ Merge(state', clarification_node(state')) = state'
            /\ pc' = "execute_step"
      ]_vars

C4_Witness ==
    /\ pc = "execute_step"
    /\ "clarify" \in entered
    /\ "execute_step" \notin entered
    /\ Len(planner_calls) = 1
    /\ ~planner_last.raised
    /\ state.clarification_answers # <<>>
    /\ ~state.requires_clarification
    /\ state.workplan # <<>>

\* the text `k: v` of the i-th answer occurs in `query` at position p
PairAt(query, answers, i, p) ==
    LET pair == answers[i][1] \o <<": ">> \o answers[i][2]
    IN /\ p + Len(pair) - 1 <= Len(query)
       /\ SubSeq(query, p, p + Len(pair) - 1) = pair

\* C5: a gate entered with requires_clarification and answers calls the
\* planner exactly once, on the original question followed by every
\* (key, answer) pair; when that call returns, the workplan and the
\* ambiguities are the new plan's, the cursor is 0 and step_results and the
\* query log are empty.
C5_ReplanReplacesPlan ==
    [][ (pc = "clarify" /\ state.requires_clarification
           /\ state.clarification_answers # <<>>) =>
            LET answers == state.clarification_answers
                query == planner_calls'[Len(planner_calls')]
            IN /\ Len(planner_calls') = Len(planner_calls) + 1
               /\ SubSeq(planner_calls', 1, Len(planner_calls)) = planner_calls
               /\ SubSeq(query, 1, Len(state.input)) = state.input
               /\ \A i \in 1..Len(answers) :
                     \E p \in Len(state.input) + 1..Len(query) : PairAt(query, answers, i, p)
               /\ ~planner_last'.raised =>
                     /\ state'.workplan = planner_last'.workplan
                     /\ state'.ambiguities = planner_last'.ambiguities
                     /\ state'.current_step_index = 0
                     /\ state'.step_results = EmptyDict
                     /\ state'.sql_queries = <<>>
                     /\ state'.past_steps = <<>>
      ]_vars

C5_Witness ==
    /\ Len(planner_calls) = 2
    /\ ~planner_last.raised
    /\ Len(state.clarification_answers) = 2
    /\ state.workplan = planner_last.workplan
    /\ state.workplan # <<>>
    /\ pc = "execute_step"
    /\ "execute_step" \notin entered

\* C6: when the planner raises in the planning node, the finished run has
\* success = false and the planning error in its error field, and no step
\* was executed.
C6_PlanningFailureOutcome ==
    PlanningRaised =>
        /\ executor_calls = <<>>
        /\ agent_calls = <<>>
        /\ pc = "END" =>
              /\ ~state.success
              /\ state.error = <<"Planning failed: ", planner_last.error>>

C6_Witness == PlanningRaised /\ pc = "END" /\ ~state.success

\* C7: when the planner raises in the planning node, the run goes from
\* plan straight to the end: the clarify, execute_step and aggregate nodes
\* are never entered.
C7_PlanningFailureSkipsNodes ==
    PlanningRaised => entered \cap {"clarify", "execute_step", "aggregate"} = {}

\* C8: when the planner raises while the gate rebuilds the plan, the run
\* still returns an outcome, with success = false and the planning error in
\* its error field; the exception does not leave the run and no step is
\* executed.
C8_ReplanFailureOutcome ==
    ReplanRaised =>
        /\ raised = None
        /\ executor_calls = <<>>
        /\ pc = "END" =>
              /\ ~state.success
              /\ state.error = <<"Planning failed: ", planner_last.error>>

\* every depends_on id of every step is the id of an earlier step
DependenciesPrecede(workplan) ==
    \A i \in 1..Len(workplan) :
        \A d \in 1..Len(workplan[i].depends_on) :
            \E j \in 1..(i - 1) : workplan[j].id = workplan[i].depends_on[d]

\* C9: a plan in which some depends_on names an id that no earlier step
\* has is never returned by the planner (building it fails), and none of
\* its steps is executed.
C9_DanglingDependencyRejected ==
    /\ (planner_last.called /\ ~planner_last.raised) =>
          DependenciesPrecede(planner_last.workplan)
    /\ ~DependenciesPrecede(state.workplan) => executor_calls = <<>>

KnownTypes(workplan) == \A i \in 1..Len(workplan) : workplan[i].type \in StepTypes

\* C10: a plan with a step whose type is none of filter, aggregate,
\* calculate, rank, compare is never returned by the planner (building it
\* fails), and none of its steps is executed or sent to the query service.
C10_UnknownTypeRejected ==
    /\ (planner_last.called /\ ~planner_last.raised) => KnownTypes(planner_last.workplan)
    /\ ~KnownTypes(state.workplan) => (executor_calls = <<>> /\ agent_calls = <<>>)

\* ---------------------------------------------------------------------
\* Execution of the plan

\* the run went through "aggregate" and has ended
Done == pc = "END" /\ "aggregate" \in entered

\* the result the executor produced for the k-th executed step
ResultOf(k) == state.past_steps[k][2]

\* no element of `part` is missing from `whole`
AllIn(part, whole) ==
    \A i \in 1..Len(part) : \E j \in 1..Len(whole) : whole[j] = part[i]

\* C11: the ambiguity list of the plan the planner returns is the union of
\* the heuristics' ambiguities for the query and the ambiguities the
\* structured-output call returned; none of the latter is dropped.
C11_AmbiguitiesAreUnion ==
    (planner_last.called /\ ~planner_last.raised) =>
        /\ AllIn(_detect_ambiguities(planner_calls[Len(planner_calls)]),
                 planner_last.ambiguities)
        /\ AllIn(llm_last, planner_last.ambiguities)

\* C12: the steps are executed one at a time in plan order: the k-th call
\* of the executor is for the k-th step of the plan, the cursor has gone
\* up by one for every executed step, succeeded or failed, and "aggregate"
\* is entered exactly when the cursor equals the length of the plan.
C12_StepsInPlanOrder ==
    /\ state.current_step_index \in 0..Len(state.workplan)
    /\ Len(executor_calls) = state.current_step_index
    /\ Len(state.past_steps) = state.current_step_index
    /\ \A k \in 1..Len(executor_calls) :
          /\ executor_calls[k] = state.workplan[k].id
          /\ state.past_steps[k][1] = state.workplan[k].id
    /\ "aggregate" \in entered => state.current_step_index = Len(state.workplan)
    /\ (pc = "execute_step" /\ "execute_step" \in entered) =>
          state.current_step_index < Len(state.workplan)
    /\ (pc = "aggregate") =>
          ("execute_step" \in entered /\ state.current_step_index = Len(state.workplan))

C12_Witness ==
    /\ pc = "aggregate"
    /\ Len(state.workplan) = MaxSteps
    /\ Len(executor_calls) = MaxSteps
    /\ ~ResultOf(1).success
    /\ ResultOf(MaxSteps).success
    /\ state.workplan[1].id # state.workplan[MaxSteps].id

\* the report's entry for the i-th step when the step ended as `result`
ReportEntry(i, step_id, result) ==
    IF result.success THEN <<StepLabel[i], step_id, "Success">>
    ELSE <<StepLabel[i], step_id, "Failed: ">> \o result.error

OccursIn(part, whole) ==
    \E p \in 1..(Len(whole) - Len(part) + 1) : SubSeq(whole, p, p + Len(part) - 1) = part

\* C13: when a step fails, its result has success false and a non-empty
\* error, every later step of the plan is still executed, the overall
\* success of the run is false, and the report marks that step as failed
\* with its error.
C13_FailedStepOutcome ==
    \A k \in 1..Len(state.past_steps) :
        ~ResultOf(k).success =>
            /\ ResultOf(k).error # None /\ ResultOf(k).error # EmptyText
            /\ Done =>
                  /\ Len(executor_calls) = Len(state.workplan)
                  /\ ~state.success
                  /\ OccursIn(ReportEntry(k, state.workplan[k].id, ResultOf(k)),
                              state.final_response)

\* C14: for a plan of any length, once the run has gone through
\* "aggregate" the overall success is the conjunction of the success flags
\* of all executed steps.
C14_SuccessIsConjunction ==
    "aggregate" \in entered =>
        (state.success <=> \A k \in 1..Len(state.past_steps) : ResultOf(k).success)

\* C15: when "aggregate" is reached, step_results holds exactly one result
\* per executed step, the one that step's execution produced; no entry was
\* overwritten.
C15_OneResultPerStep ==
    pc = "aggregate" =>
        /\ Cardinality(DOMAIN state.step_results) = Len(state.past_steps)
        /\ \A k \in 1..Len(state.past_steps) :
              /\ state.past_steps[k][1] \in DOMAIN state.step_results
              /\ state.step_results[state.past_steps[k][1]] = ResultOf(k)

\* C16: whenever a step with a non-empty depends_on is executed, the
\* relation named by its first dependency is registered and was
\* materialized by exactly one earlier successful step of the same run.
C16_DependencyMaterialized ==
    [][executor_calls' # executor_calls =>
          LET step == state.workplan[state.current_step_index + 1]
          IN step.depends_on # <<>> =>
                /\ step.depends_on[1] \in views
                /\ Cardinality({k \in 1..state.current_step_index :
                                   /\ state.workplan[k].id = step.depends_on[1]
                                   /\ ResultOf(k).success}) = 1]_vars

\* C17: every step whose result has success true has, from then until the
\* end of the run, a relation registered under its id, whatever its type.
C17_SuccessfulStepHasRelation ==
    \A k \in 1..Len(state.past_steps) :
        ResultOf(k).success => state.past_steps[k][1] \in views

\* C18: the outcome of a paused run has clarification_needed true and a
\* success field that is not true; every run that ends through "aggregate"
\* has clarification_needed false.
C18_PausedIsNotSuccess ==
    /\ Paused => ~state.success
    /\ Done => ~state.clarification_needed

RECURSIVE ReportOf(_)
\* the entries of steps i.. of the plan, each from its own execution
ReportOf(i) ==
    IF i > Len(state.workplan) THEN EmptyText
    ELSE ReportEntry(i, state.workplan[i].id, ResultOf(i)) \o ReportOf(i + 1)

\* C19: every run that enters "execute_step" ends with a non-empty
\* final_response holding one entry per step of the plan, in plan order,
\* that marks the step as succeeded or as failed with its error.
C19_ReportPerStep ==
    (pc = "END" /\ "execute_step" \in entered) =>
        /\ state.final_response # EmptyText
        /\ Len(state.past_steps) = Len(state.workplan)
        /\ state.final_response = <<"EXECUTION COMPLETE">> \o ReportOf(1)

\* C20: every run ends either paused or through "aggregate" and
\* "format_response", after at most one planner call by the planning node,
\* at most one by the clarification gate, and exactly as many executor
\* calls as the plan in force has steps.
C20_EndsPausedOrDone ==
    /\ Len(planner_calls) <= 2
    /\ Len(executor_calls) <= Len(state.workplan)
    /\ (Paused \/ Done \/ ENABLED Next)
    /\ Paused => executor_calls = <<>>
    /\ Done => Len(executor_calls) = Len(state.workplan)

\* ---------------------------------------------------------------------
\* The SQL generators

\* the generator for the current step has returned compiler.sql
Compiled(type) ==
    compiler.pc \in {"execute", "done"} /\ ~compiler.raised /\ CurrentStep.type = type

CompiledAny == \E type \in CompiledTypes : Compiled(type)

\* SQL values: a number, NULL, or the error of a division by zero
Val(n) == [k |-> "num", v |-> n]
Null == [k |-> "null"]
DivisionByZero == [k |-> "error"]

RECURSIVE Leaves(_)
Leaves(e) ==
    CASE e.op \in {"col", "sum"} -> {e}
      [] e.op = "nullif" -> Leaves(e.x)
      [] e.op \in {"div", "sub", "mul"} -> Leaves(e.l) \cup Leaves(e.r)
      [] OTHER -> {}

RECURSIVE Eval(_, _)
\* the value of expression e when its sums and aliases have the values env
Eval(e, env) ==
    CASE e.op \in {"col", "sum"} -> Val(env[e])
      [] e.op = "num" -> Val(e.n)
      [] e.op = "nullif" ->
             LET x == Eval(e.x, env) IN IF x = Val(e.n) THEN Null ELSE x
      [] OTHER ->
             LET l == Eval(e.l, env)
                 r == Eval(e.r, env)
             IN IF l = DivisionByZero \/ r = DivisionByZero THEN DivisionByZero
                ELSE IF l = Null \/ r = Null THEN Null
                ELSE IF e.op = "sub" THEN Val(l.v - r.v)
                ELSE IF e.op = "mul" THEN Val(l.v * r.v)
                ELSE IF r.v = 0 THEN DivisionByZero
                ELSE Val(l.v \div r.v)

RECURSIVE Denominators(_)
\* the expressions a formula divides by, without their guard
Denominators(e) ==
    CASE e.op = "div" ->
             {IF e.r.op = "nullif" THEN e.r.x ELSE e.r}
                 \cup Denominators(e.l) \cup Denominators(e.r)
      [] e.op \in {"sub", "mul"} -> Denominators(e.l) \cup Denominators(e.r)
      [] e.op = "nullif" -> Denominators(e.x)
      [] OTHER -> {}

\* the formulas of the fragment just generated that contain a division
Divisions ==
    {compiler.sql.select[i].expr : i \in 1..Len(compiler.sql.select)}
        \cap {e \in {compiler.sql.select[i].expr : i \in 1..Len(compiler.sql.select)} :
                 Denominators(e) # {}}

\* C21: every generated formula that contains a division evaluates to NULL,
\* not to a division-by-zero error, whenever its denominator is zero.
C21_DivisionGuarded ==
    CompiledAny =>
        \A e \in Divisions :
            \A env \in [Leaves(e) -> 0..MaxValue] :
                /\ Eval(e, env) # DivisionByZero
                /\ \A d \in Denominators(e) : Eval(d, env) = Val(0) => Eval(e, env) = Null

C21_Witness ==
    /\ Compiled("calculate")
    /\ compiler.pc = "done"
    /\ CurrentStep.depends_on = <<>>
    /\ \E e \in Divisions : Sum("Sec_Value") \in Leaves(e) /\ Sum("Tgt_Value") \in Denominators(e)

\* the step has no month-related param, its question names no month
NoMonthGiven(step) ==
    /\ ~AnyKeyHas(step.params, "month")
    /\ ~AnyKeyHas(step.params, "quarters")
    /\ \A i \in 1..Len(months_map) : ~Contains(step.question, months_map[i][1])

ExcludesAll(sql) == \E i \in 1..Len(sql.where) : sql.where[i] = MthNotAll

\* C22: a filter step with no month-related param, whose question names no
\* month and does not mention totals, compiles to a fragment with the
\* predicate that excludes the 'All' month value.
C22_DefaultExcludesAll ==
    (/\ Compiled("filter")
     /\ NoMonthGiven(CurrentStep)
     /\ ~Contains(CurrentStep.question, "total")) => ExcludesAll(compiler.sql)

\* C22 as amended: ... and whose question does not hold the quoted literal
\* 'all' either.
C22_DefaultExcludesAllUnlessLiteral ==
    (/\ Compiled("filter")
     /\ NoMonthGiven(CurrentStep)
     /\ ~Contains(CurrentStep.question, "total")
     /\ ~Contains(CurrentStep.question, "'all'")) => ExcludesAll(compiler.sql)

C22_Witness ==
    /\ Compiled("filter")
    /\ NoMonthGiven(CurrentStep)
    /\ ~Contains(CurrentStep.question, "total")
    /\ ~Contains(CurrentStep.question, "'all'")
    /\ CurrentStep.depends_on # <<>>
    /\ CurrentStep.params # <<>>
    /\ ExcludesAll(compiler.sql)

\* the aliases the select list of the fragment of step `id` defines
DefinedAliases(id) ==
    IF id \in DOMAIN compiler.step_results /\ compiler.step_results[id].sql # NoSql
    THEN LET select == compiler.step_results[id].sql.select
         IN {select[i].alias : i \in 1..Len(select)} \ {""}
    ELSE {}

\* the aliases the step the current step reads from defines
UpstreamAliases ==
    IF CurrentStep.depends_on # <<>> THEN DefinedAliases(CurrentStep.depends_on[1]) ELSE {}

\* C23: a rank step whose question contains 'top 5' and whose upstream step
\* exposes the secondary-value alias and neither the achievement nor the
\* growth alias orders by the secondary-value alias, DESC, limit 5; the
\* limit is the first integer in the question, 5 when there is none.
C23_TopFiveSecondary ==
    Compiled("rank") =>
        /\ (/\ Contains(CurrentStep.question, "top 5")
            /\ "total_secondary_value" \in UpstreamAliases
            /\ UpstreamAliases \cap {"achievement_pct", "growth_pct"} = {}) =>
               /\ compiler.sql.order_by = "total_secondary_value"
               /\ compiler.sql.direction = "DESC"
               /\ compiler.sql.limit = 5
        /\ compiler.sql.limit = IF numbers(CurrentStep.question) # <<>>
                                THEN numbers(CurrentStep.question)[1] ELSE 5

\* C23 as amended: ... whose question contains 'top 5' with no integer
\* before it ...
C23_TopFiveSecondaryFirstInteger ==
    Compiled("rank") =>
        /\ (/\ Contains(CurrentStep.question, "top 5")
            /\ numbers(CurrentStep.question)[1] = 5
            /\ "total_secondary_value" \in UpstreamAliases
            /\ UpstreamAliases \cap {"achievement_pct", "growth_pct"} = {}) =>
               /\ compiler.sql.order_by = "total_secondary_value"
               /\ compiler.sql.direction = "DESC"
               /\ compiler.sql.limit = 5
        /\ compiler.sql.limit = IF numbers(CurrentStep.question) # <<>>
                                THEN numbers(CurrentStep.question)[1] ELSE 5

C23_Witness ==
    /\ Compiled("rank")
    /\ CurrentStep.question = <<RQTop5Secondary>>
    /\ "total_secondary_value" \in UpstreamAliases
    /\ UpstreamAliases \cap {"achievement_pct", "growth_pct"} = {}
    /\ compiler.sql.order_by = "total_secondary_value"
    /\ compiler.sql.limit = 5

\* the keys of a clarification_answers mapping
AnswerKeys(answers) == {answers[i][1] : i \in 1..Len(answers)}

\* the i-th invocation starts from a fresh state for the question of the first one
FreshForQuestion(i) ==
    LET st == cli.invocations[i]
    IN /\ st.input = cli.invocations[1].input
       /\ st.workplan = <<>> /\ st.step_results = EmptyDict /\ st.current_step_index = 0

\* the i-th invocation carries one answer per ambiguity of the result that led
\* to it, keyed by that ambiguity
KeyedBySurfaced(i) ==
    LET st == cli.invocations[i]
    IN /\ AnswerKeys(st.clarification_answers) = SeqToSet(cli.surfaced[i])
       /\ Len(st.clarification_answers) = Len(cli.surfaced[i])

\* C24 (as stated): when the wrapper's first pass ends paused, the invocation
\* that follows has the original question, no plan, and answers whose keys are
\* exactly the ambiguities that pass surfaced; no later invocation changes
\* the question or starts from an old plan either.
C24_ResumeWithSurfacedKeys ==
    /\ \A i \in 2..Len(cli.invocations) : FreshForQuestion(i)
    /\ Len(cli.invocations) >= 2 => KeyedBySurfaced(2)

\* C24 (amended): the same, for a wrapper that was called without answers.
C24_ResumeWithSurfacedKeysWhenPrompted ==
    /\ \A i \in 2..Len(cli.invocations) : FreshForQuestion(i)
    /\ Len(cli.invocations) >= 2 /\ cli.invocations[1].clarification_answers = <<>>
          => KeyedBySurfaced(2)

\* a question with two ambiguities was asked without answers, the user was
\* prompted for both and the second invocation has returned
C24_Witness ==
    /\ cli.pc = "returned"
    /\ Len(cli.invocations) = 2
    /\ cli.invocations[1].clarification_answers = <<>>
    /\ Len(cli.surfaced[2]) = 2
    /\ cli.prompts = 1

\* C25: the fragment of a filter, aggregate, calculate or rank step reads
\* from the relation its first dependency names when depends_on is not
\* empty, and from the analyzer table only when depends_on is empty.
C25_ReadsFromDependency ==
    CompiledAny =>
        compiler.sql.from = IF CurrentStep.depends_on # <<>> THEN CurrentStep.depends_on[1]
                            ELSE "analyzer"

\* C26: in every branch of every generator the fragment defines a relation
\* named as the step's id and its outer SELECT reads from that name.
C26_DefinesOwnRelation ==
    CompiledAny =>
        /\ compiler.sql.name = CurrentStep.id
        /\ compiler.sql.outer_from = CurrentStep.id

\* C27: the direction of a rank step is ASC exactly when its question
\* contains one of bottom, lowest, worst, underperform, and DESC otherwise.
C27_DirectionByWords ==
    Compiled("rank") =>
        compiler.sql.direction =
            IF ContainsAny(CurrentStep.question, {"bottom", "lowest", "worst", "underperform"})
            THEN "ASC" ELSE "DESC"

\* the generator for the current rank step has returned or raised
RankGenerated == compiler.pc \in {"execute", "done"} /\ CurrentStep.type = "rank"

\* C28: the ORDER BY column of a rank step is the first alias, in the
\* precedence achievement_pct, growth_pct, total_secondary_value,
\* total_primary_value, performance_gap, that the upstream step's fragment
\* exposes, and the primary-value alias when it exposes none of them or
\* there is no upstream step.
C28_OrderByPrecedence ==
    RankGenerated =>
        /\ ~compiler.raised
        /\ compiler.sql.order_by =
              IF \E i \in 1..Len(RankAliases) : RankAliases[i] \in UpstreamAliases
              THEN RankAliases[CHOOSE i \in 1..Len(RankAliases) :
                                  /\ RankAliases[i] \in UpstreamAliases
                                  /\ \A j \in 1..(i - 1) : RankAliases[j] \notin UpstreamAliases]
              ELSE "total_primary_value"

\* the step the current step reads from has returned sums under an alias
UpstreamPreAggregated ==
    /\ CurrentStep.depends_on # <<>>
    /\ CurrentStep.depends_on[1] \in DOMAIN compiler.step_results
    /\ LET sql == compiler.step_results[CurrentStep.depends_on[1]].sql
       IN /\ sql # NoSql
          /\ \E i \in 1..Len(sql.select) :
                sql.select[i].expr.op = "sum" /\ sql.select[i].alias # ""

\* C29: the formula of a calculate step whose upstream relation exposes
\* pre-aggregated sums refers to upstream aliases only and applies no
\* aggregate function to raw columns, whatever the kind of formula.
C29_NoReaggregation ==
    (Compiled("calculate") /\ UpstreamPreAggregated) =>
        LET formula == compiler.sql.select[Len(compiler.sql.select)].expr
        IN \A leaf \in Leaves(formula) :
              leaf.op = "col" /\ leaf.name \in UpstreamAliases

\* the quarters a str value of the quarters param names
NamedQuarters(value) ==
    CASE value = <<"Q1">> -> <<"Q1">>
      [] value = <<"Q1, Q2">> -> <<"Q1", "Q2">>
      [] OTHER -> <<>>

\* C30: a filter step whose params (str to str) hold the key quarters with
\* a value naming quarters compiles to a fragment that restricts the month
\* to the union of the months of the named quarters.
C30_QuartersRestrictMonth ==
    Compiled("filter") =>
        \A i \in 1..Len(CurrentStep.params) :
            LET p == CurrentStep.params[i]
            IN (lower(p.key) = "quarters" /\ ~p.is_list /\ NamedQuarters(p.value) # <<>>) =>
                  \E j \in 1..Len(compiler.sql.where) :
                      /\ compiler.sql.where[j].lhs = "Mth"
                      /\ compiler.sql.where[j].op = "IN"
                      /\ SeqToSet(compiler.sql.where[j].values) =
                            SeqToSet(quarters_months(NamedQuarters(p.value)))

\* the months a question names as a word of its own, full or abbreviated
MonthsNamed(question) ==
    UNION { CASE question[i] = FQPrimaryApr -> {"Apr"}
              [] question[i] = FQMarch -> {"Mar"}
              [] OTHER -> {}
            : i \in 1..Len(question) }

MonthEqualities(sql) ==
    {i \in 1..Len(sql.where) : sql.where[i].lhs = "Mth" /\ sql.where[i].op = "="}

\* C31: a filter step without a month param compiles to a fragment with a
\* month equality predicate exactly when its question names a month; there
\* is at most one such predicate and its value is the month named.
C31_QuestionMonthPredicate ==
    (Compiled("filter") /\ ~AnyKeyHas(CurrentStep.params, "month")) =>
        LET named == MonthsNamed(CurrentStep.question)
            eqs == MonthEqualities(compiler.sql)
        IN /\ (eqs # {}) <=> (named # {})
           /\ Cardinality(eqs) <= 1
           /\ \A i \in eqs : \E m \in named : compiler.sql.where[i].values = <<m>>

\* the question names a month or a quarter as a word of its own
NamesMonthOrQuarter(query) ==
    \E i \in 1..Len(query) : query[i] \in {QShowAll, HQSalesQ1, HQSecondaryMarch}

\* C32: for a question with a relative time phrase that names no month and no
\* quarter the list holds the time-period clarification, and for a question
\* that names a month or a quarter it does not.
C32_TimeClarification ==
    heuristics.pc = "done" =>
        /\ (ContainsAny(heuristics.query, RelativeTime) /\ ~NamesMonthOrQuarter(heuristics.query))
              => In(<<AmbTime>>, heuristics.ambiguities)
        /\ NamesMonthOrQuarter(heuristics.query) => ~In(<<AmbTime>>, heuristics.ambiguities)

\* C33: the list the static heuristics return holds no string twice.
C33_NoDuplicateAmbiguity ==
    heuristics.pc = "done" =>
        \A i, j \in 1..Len(heuristics.ambiguities) :
            i # j => heuristics.ambiguities[i] # heuristics.ambiguities[j]

\* clarify has returned an intent whose only ambiguity is the one the sanity
\* check makes up, the intent before the check having none
Synthesized ==
    /\ clarifier.intent_data.ambiguities = <<>>
    /\ clarifier.intent.ambiguities = <<MissingFields>>
    /\ clarifier.intent.requires_clarification

AllCriticalEmpty == \A k \in critical_keys : clarifier.intent_data[k] = <<>>

SomeCriticalEmpty == \E k \in critical_keys : clarifier.intent_data[k] = <<>>

\* C34 (as stated): the sanity check synthesizes its ambiguity exactly when
\* the normalized intent has no ambiguity and metrics, granularity and time
\* context are all empty; with no ambiguity and one of them non-empty the
\* intent does not require clarification.
C34_SafetyNetWhenAllEmpty ==
    clarifier.pc = "returned" =>
        /\ Synthesized <=> (clarifier.intent_data.ambiguities = <<>> /\ AllCriticalEmpty)
        /\ (clarifier.intent_data.ambiguities = <<>> /\ ~AllCriticalEmpty)
              => ~clarifier.intent.requires_clarification

\* C34 (amended): ... exactly when the normalized intent has no ambiguity and
\* at least one of the three is empty; with no ambiguity and all three
\* non-empty the intent does not require clarification.
C34_SafetyNetWhenAnyEmpty ==
    clarifier.pc = "returned" =>
        /\ Synthesized <=> (clarifier.intent_data.ambiguities = <<>> /\ SomeCriticalEmpty)
        /\ (clarifier.intent_data.ambiguities = <<>> /\ ~SomeCriticalEmpty)
              => ~clarifier.intent.requires_clarification

\* the check has fired on a normalized intent that names metrics and a
\* period but no granularity
C34_Witness ==
    /\ clarifier.pc = "returned"
    /\ clarifier.initial_understanding = "needs_schema_lookup"
    /\ Synthesized
    /\ clarifier.intent_data.metrics_needed # <<>>
    /\ clarifier.intent_data.time_context # <<>>
    /\ clarifier.intent_data.granularity = <<>>

IsSql(sql) == sql # None

\* the SQL texts of the steps executed so far, in the order of execution
ExecutedSql ==
    SelectSeq([k \in 1..Len(state.past_steps) |-> ResultOf(k).sql], IsSql)

\* C35: the cursor stays within 0..length of the plan, the query log has at
\* most as many entries as the cursor counts, its entries are the queries of
\* the executed steps in the order of execution, and at the end of a run
\* sql_query is the last entry of the log, or absent when the log is empty.
C35_CursorAndQueryLog ==
    /\ state.current_step_index \in 0..Len(state.workplan)
    /\ Len(state.sql_queries) <= state.current_step_index
    /\ state.sql_queries = ExecutedSql
    /\ pc = "END" =>
          state.sql_query = IF state.sql_queries = <<>> THEN None
                            ELSE state.sql_queries[Len(state.sql_queries)]

\* a run of two steps has ended with two different queries in the log
C35_Witness ==
    /\ Done
    /\ Len(state.sql_queries) = 2
    /\ state.sql_queries[1] # state.sql_queries[2]
    /\ state.current_step_index = 2

\* C36: a run that ends through the aggregate node has success = false if
\* and only if its error field holds a text.
C36_FailureCarriesError ==
    Done => (~state.success <=> (state.error # None /\ state.error # EmptyText))

\* the columns of the analyzer table the generators refer to
AnalyzerColumns ==
    SeqToSet(AnalyzerDims) \cup
        {"Mth", "Prim_Value", "Sec_Value", "Tgt_Value", "LY_Prim_Value", "LY_Sec_Value",
         "Prim_Units", "Sec_Units", "Tgt_Units"}

\* the columns the relation `name` exposes: those of the analyzer table, or
\* those the select list of the step's fragment yields
RECURSIVE ExposedColumns(_)
ExposedColumns(name) ==
    IF name = "analyzer" THEN AnalyzerColumns
    ELSE IF name \in DOMAIN compiler.step_results /\ compiler.step_results[name].sql # NoSql
    THEN LET sql == compiler.step_results[name].sql
         IN UNION { IF sql.select[i].alias # "" THEN {sql.select[i].alias}
                    ELSE IF sql.select[i].expr.op = "star" THEN ExposedColumns(sql.from)
                    ELSE IF sql.select[i].expr.op = "col" THEN {sql.select[i].expr.name}
                    ELSE {}
                    : i \in 1..Len(sql.select) }
    ELSE {}

\* C37: the ORDER BY column of a rank step is a column of the relation the
\* fragment reads from.
C37_OrderByExposedColumn ==
    Compiled("rank") => compiler.sql.order_by \in ExposedColumns(compiler.sql.from)

\* C38: no step of a run succeeds by reading a relation that only an earlier
\* run on the same connection has materialized.
C38_NoRelationOfEarlierRun ==
    [][(/\ pc = "execute_step"
        /\ Len(state'.past_steps) = Len(state.past_steps) + 1)
       => LET step == state.workplan[state.current_step_index + 1]
              result == state'.past_steps[Len(state'.past_steps)][2]
          IN (step.type \in CompiledTypes /\ result.success) => Source(step) \notin stale]_vars

\* C39: when the wrapper has prompted for the ambiguities of the first pass
\* and resumed with answers keyed by those strings, none of them is among the
\* ambiguities of the re-plan, whatever was typed.
C39_SurfacedNotRaisedAgain ==
    (cli.pc \in {"check", "returned"} /\ cli.prompts = 1) =>
        \A i \in 1..Len(cli.result.ambiguities) : ~In(cli.result.ambiguities[i], cli.pending)

\* the achievement and the time clarification were surfaced, both were
\* answered "last quarter", and the resumed run has returned
C39_Witness ==
    /\ cli.pc = "returned"
    /\ cli.prompts = 1
    /\ cli.pending = <<<<AmbAchievement>>, <<AmbTime>>>>
    /\ \A i \in 1..Len(cli.clarification_answers) :
          cli.clarification_answers[i][2] = <<AnsLastQuarter>>

====
